---- MODULE Spec2Model ----
(***************************************************************************)
(* Rule-based medical diet recommender: the rule engine                    *)
(* (app/rules/engine.py), the calculators (app/services/calculators.py)    *)
(* and the planner (app/services/planner.py), driven the way               *)
(* app/services/recommender.py and app/batch_cli.py drive them.            *)
(*                                                                         *)
(* Representation.                                                         *)
(*  - Optional[T] is a set with at most one element: None is {}, a value   *)
(*    v is {v}.                                                            *)
(*  - Strings that the code only compares for equality or set membership   *)
(*    (conditions, tags, allergens, cuisines, diet and meal types, gi) are *)
(*    TLA+ strings; str.lower() on them is LowerTok.                       *)
(*  - Strings that the code searches with the substring operator `in`      *)
(*    (food names, avoid_names, likes, dislikes) are sequences of          *)
(*    one-character strings; str.lower() on them is Lower.                 *)
(*  - Python lists that the code only tests for membership (food.tags,     *)
(*    food.diet_types, food.meal_types, food.cuisines, food.allergens)     *)
(*    are sets; lists whose order or multiplicity is observable (the       *)
(*    catalog, conditions, allergies, cuisines of the profile,             *)
(*    explanations, picked items) are sequences.                           *)
(*  - Floats are exact rationals held as scaled integers; every rounding   *)
(*    the code performs is performed explicitly. height_cm and weight_kg   *)
(*    are whole numbers, salt_limit_g is in tenths of a gram, and the      *)
(*    fractions of the meal split are in units of 0.0001.                  *)
(***************************************************************************)
EXTENDS Integers, Sequences, FiniteSets, TLC

VARIABLES
    pc,             \* position of the driver
    profile,        \* the UserProfile being processed
    catalog,        \* what get_foods() returns
    constraints,    \* ConstraintSpec of the last build_constraints call
    explanations,   \* explanation list of the last build_constraints call
    filtered,       \* result of the last filter_foods call
    calories,       \* result of estimate_daily_calories
    sodium_limit,   \* the sodium limit recommend hands to the planner
    split,          \* result of _compute_meal_split
    meals,          \* DayPlan.meals
    planner_notes,  \* notes returned by assemble_day_plan
    totals,         \* DayPlan.totals (calories, sodium_mg)
    weekly,         \* result of generate_weekly_plan
    result,         \* the dict recommend returns
    hist            \* what an earlier call returned, for comparisons

vars == <<pc, profile, catalog, constraints, explanations, filtered, calories, sodium_limit,
          split, meals, planner_notes, totals, weekly, result, hist>>

None == {}
Some(v) == {v}
IsNone(o) == o = {}
TheVal(o) == CHOOSE v \in o : TRUE

Range(s) == {s[i] : i \in 1..Len(s)}

(***************************************************************************)
(* Strings                                                                 *)
(***************************************************************************)

\* str.lower() on one character of the alphabet the names are written in.
LowerCh(ch) ==
    CASE ch = "A" -> "a"
      [] ch = "B" -> "b"
      [] ch = "F" -> "f"
      [] ch = "H" -> "h"
      [] ch = "N" -> "n"
      [] ch = "O" -> "o"
      [] ch = "R" -> "r"
      [] ch = "T" -> "t"
      [] OTHER -> ch

\* str.lower() on a string held as a sequence of characters.
Lower(s) == [i \in 1..Len(s) |-> LowerCh(s[i])]

\* str.lower() on a token.
LowerTok(t) ==
    CASE t = "Diabetes" -> "diabetes"
      [] t = "Thyroid" -> "thyroid"
      [] t = "Nuts" -> "nuts"
      [] t = "Indian" -> "indian"
      [] t = "High" -> "high"
      [] t = "Low" -> "low"
      [] OTHER -> t

\* Python's `needle in hay` on strings: needle occurs as a contiguous run.
IsSubstr(needle, hay) ==
    \E k \in 0..(Len(hay) - Len(needle)) :
        \A i \in 1..Len(needle) : hay[k + i] = needle[i]

\* engine._contains_any: the text is lowered, the needles are not.
ContainsAny(text, needles) ==
    LET t == Lower(text) IN \E n \in needles : IsSubstr(n, t)

(***************************************************************************)
(* engine.build_constraints                                                *)
(***************************************************************************)

\* The names the rules put in avoid_names.
banana == <<"b", "a", "n", "a", "n", "a">>
rajma == <<"r", "a", "j", "m", "a">>
tofu == <<"t", "o", "f", "u">>

\* conditions = {c.lower() for c in profile.medical.conditions}
ConditionSet(p) == {LowerTok(c) : c \in Range(p.medical.conditions)}

\* chol and chol >= 200: None and 0 are falsy.
HighCholesterol(p) ==
    /\ ~IsNone(p.medical.cholesterol_mgdl)
    /\ TheVal(p.medical.cholesterol_mgdl) # 0
    /\ TheVal(p.medical.cholesterol_mgdl) >= 200

\* Baseline with only the last entry of the allergy list taken.
Baseline_LastAllergyOnly(p) ==
    [required |-> {},
     prefer |-> {},
     avoid |-> {"fried", "processed", "refined_sugar", "refined_carbs"},
     avoid_names |-> {},
     allergens |-> IF p.medical.allergies = <<>> THEN {}
                   ELSE {LowerTok(p.medical.allergies[Len(p.medical.allergies)])},
     cuisines |-> [i \in 1..Len(p.dietary.preferred_cuisine) |->
                      LowerTok(p.dietary.preferred_cuisine[i])],
     diet_allowed |-> {p.dietary.diet_type},
     sodium_limit |-> None,
     explanations |-> <<>>]

\* The locals of build_constraints before the first rule.
Baseline(p) ==
    [required |-> {},
     prefer |-> {},
     avoid |-> {"fried", "processed", "refined_sugar", "refined_carbs"},
     avoid_names |-> {},
     allergens |-> {LowerTok(a) : a \in Range(p.medical.allergies)},
     cuisines |-> [i \in 1..Len(p.dietary.preferred_cuisine) |->
                      LowerTok(p.dietary.preferred_cuisine[i])],
     diet_allowed |-> {p.dietary.diet_type},
     sodium_limit |-> None,
     explanations |-> <<>>]

\* DiabetesRule with low_gi only preferred, not required.
DiabetesRule_PreferOnly(p, a) ==
    IF "diabetes" \in ConditionSet(p)
    THEN [a EXCEPT !.prefer = @ \cup {"low_gi", "high_fiber"},
                   !.avoid = @ \cup {"high_gi", "refined_sugar", "refined_carbs"},
                   !.explanations = Append(@,
    "Applied diabetes rules: prefer low GI, high fiber; avoid refined sugar/carbs.")]
    ELSE a

\* DiabetesRule that assigns avoid instead of adding to it.
DiabetesRule_AvoidAssigned(p, a) ==
    IF "diabetes" \in ConditionSet(p)
    THEN [a EXCEPT !.required = @ \cup {"low_gi"},
                   !.prefer = @ \cup {"high_fiber"},
                   !.avoid = {"high_gi", "refined_sugar", "refined_carbs"},
                   !.explanations = Append(@,
    "Applied diabetes rules: prefer low GI, high fiber; avoid refined sugar/carbs.")]
    ELSE a

\* if "diabetes" in conditions
DiabetesRule(p, a) ==
    IF "diabetes" \in ConditionSet(p)
    THEN [a EXCEPT !.required = @ \cup {"low_gi"},
                   !.prefer = @ \cup {"high_fiber"},
                   !.avoid = @ \cup {"high_gi", "refined_sugar", "refined_carbs"},
                   !.explanations = Append(@,
    "Applied diabetes rules: prefer low GI, high fiber; avoid refined sugar/carbs.")]
    ELSE a

\* HypertensionRule that ignores the low_sodium toggle.
HypertensionRule_ConditionOnly(p, a) ==
    IF "hypertension" \in ConditionSet(p)
    THEN [a EXCEPT !.prefer = @ \cup {"low_sodium"},
                   !.avoid = @ \cup {"high_sodium"},
                   !.sodium_limit = Some(1500),
                   !.explanations = Append(@,
    "Applied hypertension/low sodium rules: limit sodium ~1500 mg/day, avoid high-sodium foods.")]
    ELSE a

HypertensionRule(p, a) ==
    IF "hypertension" \in ConditionSet(p) \/ p.special.low_sodium
    THEN [a EXCEPT !.prefer = @ \cup {"low_sodium"},
                   !.avoid = @ \cup {"high_sodium"},
                   !.sodium_limit = IF IsNone(@) THEN Some(1500)
                                    ELSE Some(IF TheVal(@) < 1500 THEN TheVal(@) ELSE 1500),
                   !.explanations = Append(@,
    "Applied hypertension/low sodium rules: limit sodium ~1500 mg/day, avoid high-sodium foods.")]
    ELSE a

HeartRule(p, a) ==
    IF "heart disease" \in ConditionSet(p) \/ HighCholesterol(p)
    THEN [a EXCEPT !.prefer = @ \cup {"omega3", "anti_inflammatory", "low_saturated_fat"},
                   !.avoid = @ \cup {"high_saturated_fat", "fried", "processed"},
                   !.explanations = Append(@,
    "Applied heart/cholesterol rules: prefer omega-3 and anti-inflammatory; avoid fried/processed/high saturated fat.")]
    ELSE a

\* RenalRule that avoids banana only.
RenalRule_BananaOnly(p, a) ==
    IF "kidney disease" \in ConditionSet(p) \/ p.special.renal
    THEN [a EXCEPT !.prefer = @ \cup {"low_potassium", "low_phosphorus"},
                   !.avoid = @ \cup {"high_potassium", "high_phosphorus"},
                   !.avoid_names = @ \cup {banana},
                   !.explanations = Append(@,
    "Applied renal rules: limit potassium/phosphorus; avoid banana/rajma in this catalog.")]
    ELSE a

RenalRule(p, a) ==
    IF "kidney disease" \in ConditionSet(p) \/ p.special.renal
    THEN [a EXCEPT !.prefer = @ \cup {"low_potassium", "low_phosphorus"},
                   !.avoid = @ \cup {"high_potassium", "high_phosphorus"},
                   !.avoid_names = @ \cup {banana, rajma},
                   !.explanations = Append(@,
    "Applied renal rules: limit potassium/phosphorus; avoid banana/rajma in this catalog.")]
    ELSE a

\* PcosRule with one sentence per matching condition name.
PcosRule_PerName(p, a) ==
    IF "pcod" \in ConditionSet(p) \/ "pcos" \in ConditionSet(p)
    THEN [a EXCEPT !.required = @ \cup {"low_gi"},
                   !.prefer = @ \cup {"anti_inflammatory", "high_fiber", "lean_protein"},
                   !.avoid = @ \cup {"refined_sugar", "refined_carbs", "fried"},
                   !.explanations = @ \o
                      [i \in 1..Cardinality(ConditionSet(p) \cap {"pcod", "pcos"}) |->
    "Applied PCOD/PCOS rules: low GI, anti-inflammatory, high fiber, lean protein."]]
    ELSE a

\* if "pcod" in conditions or "pcos" in conditions
PcosRule(p, a) ==
    IF "pcod" \in ConditionSet(p) \/ "pcos" \in ConditionSet(p)
    THEN [a EXCEPT !.required = @ \cup {"low_gi"},
                   !.prefer = @ \cup {"anti_inflammatory", "high_fiber", "lean_protein"},
                   !.avoid = @ \cup {"refined_sugar", "refined_carbs", "fried"},
                   !.explanations = Append(@,
    "Applied PCOD/PCOS rules: low GI, anti-inflammatory, high fiber, lean protein.")]
    ELSE a

GastricRule(p, a) ==
    IF "gastric" \in ConditionSet(p) \/ "gastric issues" \in ConditionSet(p)
    THEN [a EXCEPT !.avoid = @ \cup {"spicy", "fried"},
                   !.prefer = @ \cup {"high_fiber"},
                   !.explanations = Append(@,
    "Applied gastric rules: avoid spicy/fried; emphasize gentle fiber and cooked veg.")]
    ELSE a

\* ThyroidRule that replaces avoid_names instead of adding to it.
ThyroidRule_Replace(p, a) ==
    IF "thyroid" \in ConditionSet(p)
    THEN [a EXCEPT !.avoid_names = {tofu},
                   !.explanations = Append(@,
    "Applied thyroid caution: limited soy-heavy items (e.g., tofu).")]
    ELSE a

\* if "thyroid" in conditions: avoid_names.update({"tofu"})
ThyroidRule(p, a) ==
    IF "thyroid" \in ConditionSet(p)
    THEN [a EXCEPT !.avoid_names = @ \cup {tofu},
                   !.explanations = Append(@,
    "Applied thyroid caution: limited soy-heavy items (e.g., tofu).")]
    ELSE a

\* The six special toggles, in the order of the code.
ToggleRules(p, a) ==
    LET t1 == IF p.special.low_gi
              THEN [a EXCEPT !.required = @ \cup {"low_gi"},
                             !.explanations = Append(@, "Special: Low GI enabled.")]
              ELSE a
        t2 == IF p.special.high_fiber
              THEN [t1 EXCEPT !.prefer = @ \cup {"high_fiber"},
                              !.explanations = Append(@, "Special: High fiber enabled.")]
              ELSE t1
        t3 == IF p.special.high_protein
              THEN [t2 EXCEPT !.prefer = @ \cup {"lean_protein"},
                              !.explanations = Append(@, "Special: High protein enabled.")]
              ELSE t2
        t4 == IF p.special.anti_inflammatory
              THEN [t3 EXCEPT !.prefer = @ \cup {"anti_inflammatory"},
                              !.explanations = Append(@, "Special: Anti-inflammatory enabled.")]
              ELSE t3
        t5 == IF p.special.gluten_free
              THEN [t4 EXCEPT !.allergens = @ \cup {"gluten"},
                              !.explanations = Append(@, "Special: Gluten-free enabled.")]
              ELSE t4
        t6 == IF p.special.lactose_free
              THEN [t5 EXCEPT !.allergens = @ \cup {"lactose"},
                              !.explanations = Append(@, "Special: Lactose-free enabled.")]
              ELSE t5
    IN t6

\* build_constraints(profile): [c |-> ConstraintSpec, explanations |-> list].
build_constraints(p) ==
    LET a == ToggleRules(p,
               ThyroidRule(p,
                 GastricRule(p,
                   PcosRule(p,
                     RenalRule(p,
                       HeartRule(p,
                         HypertensionRule(p,
                           DiabetesRule(p, Baseline(p)))))))))
    IN [c |-> [required_tags |-> a.required,
               prefer_tags |-> a.prefer,
               avoid_tags |-> a.avoid,
               avoid_names |-> a.avoid_names,
               exclude_allergens |-> a.allergens,
               diet_types_allowed |-> a.diet_allowed,
               cuisine_preferences |-> a.cuisines,
               max_sodium_mg |-> a.sodium_limit],
        explanations |-> a.explanations]

\* build_constraints with allergens aliasing profile.medical.allergies, so
\* that the gluten_free and lactose_free toggles write into the profile.
ProfileAfterBuild_Aliased(p) ==
    LET g == IF p.special.gluten_free THEN <<"gluten">> ELSE <<>>
        l == IF p.special.lactose_free THEN <<"lactose">> ELSE <<>>
    IN [p EXCEPT !.medical.allergies = @ \o g \o l]

\* What a call of build_constraints leaves in the caller's profile object:
\* every local is a fresh set or list (comprehensions, set literals), so the
\* profile is not written.
ProfileAfterBuild(p) == p

(***************************************************************************)
(* engine.filter_foods                                                     *)
(***************************************************************************)

\* A diet gate that only turns away foods with no diet type at all.
DietGate_AnyDiet(food, p) == food.diet_types # {}

\* profile.dietary.diet_type not in food.diet_types
DietGate(food, p) == p.dietary.diet_type \in food.diet_types

\* any(a in constraints.exclude_allergens for a in food.allergens)
AllergenHit(food, c) == \E a \in food.allergens : a \in c.exclude_allergens

\* _contains_any(food.name, constraints.avoid_names)
AvoidNameHit(food, c) == ContainsAny(food.name, c.avoid_names)

\* any(tag in constraints.avoid_tags for tag in food.tags)
AvoidTagHit(food, c) == \E tag \in food.tags : tag \in c.avoid_tags

\* "high_gi" in constraints.avoid_tags and food.gi.lower() == "high"
HighGiHit(food, c) == "high_gi" \in c.avoid_tags /\ LowerTok(food.gi) = "high"

\* A required-tags block that wants every required tag on the food.
RequiredOk_AllOf(food, c) ==
    IF c.required_tags = {} THEN TRUE
    ELSE LET low_gi_ok == LowerTok(food.gi) = "low" \/ "low_gi" \in food.tags
             req == c.required_tags \ {"low_gi"}
         IN /\ ("low_gi" \in c.required_tags => low_gi_ok)
            /\ req \subseteq food.tags

\* The required-tags block: TRUE when the food passes it.
RequiredOk(food, c) ==
    IF c.required_tags = {} THEN TRUE
    ELSE LET low_gi_ok == LowerTok(food.gi) = "low" \/ "low_gi" \in food.tags
             req == c.required_tags \ {"low_gi"}
         IN /\ ("low_gi" \in c.required_tags => low_gi_ok)
            /\ ~(req # {} /\ ~(\E tag \in food.tags : tag \in req))

\* A dislike test that wants the whole name to be the dislike.
DislikeHit_WholeName(food, p) ==
    \E i \in DOMAIN p.dietary.dislikes :
        Lower(p.dietary.dislikes[i]) = Lower(food.name)

\* any(sub in food.name.lower() for sub in dislikes), dislikes lowered
DislikeHit(food, p) ==
    \E i \in DOMAIN p.dietary.dislikes :
        IsSubstr(Lower(p.dietary.dislikes[i]), Lower(food.name))

\* filter_foods.allowed
Allowed(food, p, c) ==
    /\ DietGate(food, p)
    /\ ~AllergenHit(food, c)
    /\ ~AvoidNameHit(food, c)
    /\ ~AvoidTagHit(food, c)
    /\ ~HighGiHit(food, c)
    /\ RequiredOk(food, c)
    /\ ~DislikeHit(food, p)

\* filter_foods.score, before the sign is flipped for the sort.
Score(food, p, c) ==
    (IF c.cuisine_preferences # <<>> /\
        (\E i \in DOMAIN c.cuisine_preferences : c.cuisine_preferences[i] \in food.cuisines)
     THEN 2 ELSE 0)
    + (IF \E tag \in food.tags : tag \in c.prefer_tags THEN 1 ELSE 0)
    + (IF \E i \in DOMAIN p.dietary.likes :
             IsSubstr(Lower(p.dietary.likes[i]), Lower(food.name))
       THEN 1 ELSE 0)

\* [f for f in foods if pred(f)], the order kept.
RECURSIVE Select(_, _, _, _)
Select(foods, p, c, i) ==
    IF i > Len(foods) THEN <<>>
    ELSE (IF Allowed(foods[i], p, c) THEN <<foods[i]>> ELSE <<>>) \o Select(foods, p, c, i + 1)

\* The items of fs whose score is k, the order kept.
RECURSIVE WithScore(_, _, _, _, _)
WithScore(fs, p, c, k, i) ==
    IF i > Len(fs) THEN <<>>
    ELSE (IF Score(fs[i], p, c) = k THEN <<fs[i]>> ELSE <<>>) \o WithScore(fs, p, c, k, i + 1)

\* A sort with the lowest score first.
SortByScore_Ascending(fs, p, c) ==
    WithScore(fs, p, c, 0, 1) \o WithScore(fs, p, c, 1, 1) \o WithScore(fs, p, c, 2, 1)
        \o WithScore(fs, p, c, 3, 1) \o WithScore(fs, p, c, 4, 1)

\* A sort that drops the foods without any preference point.
SortByScore_ScoredOnly(fs, p, c) ==
    WithScore(fs, p, c, 4, 1) \o WithScore(fs, p, c, 3, 1) \o WithScore(fs, p, c, 2, 1)
        \o WithScore(fs, p, c, 1, 1)

\* list.sort(key=score) with key -Score: a stable sort, highest score first.
SortByScore(fs, p, c) ==
    WithScore(fs, p, c, 4, 1) \o WithScore(fs, p, c, 3, 1) \o WithScore(fs, p, c, 2, 1)
        \o WithScore(fs, p, c, 1, 1) \o WithScore(fs, p, c, 0, 1)

filter_foods(foods, p, c) == SortByScore(Select(foods, p, c, 1), p, c)

(***************************************************************************)
(* services/calculators.py                                                 *)
(***************************************************************************)

\* (level or default).strip().lower() on the tokens profiles carry.
StripLower(t, default) ==
    CASE t = "" -> default
      [] t = " Active" -> "active"
      [] t = "HIGH" -> "high"
      [] t = "Low" -> "low"
      [] OTHER -> t

\* Python's round() on the rational num/den (den > 0): to the nearest
\* integer, a tie to the even one.
RoundHalfEven(num, den) ==
    LET q == num \div den
        r == num % den
    IN IF 2 * r < den THEN q
       ELSE IF 2 * r > den THEN q + 1
       ELSE IF q % 2 = 0 THEN q ELSE q + 1

\* ACTIVITY_FACTORS, times 40; an unknown level is sedentary.
ActivityFactor40(level) ==
    LET l == StripLower(level, "sedentary") IN
    CASE l = "sedentary" -> 48
      [] l = "light" -> 55
      [] l = "moderate" -> 62
      [] l = "active" -> 69
      [] l = "athlete" -> 76
      [] OTHER -> 48

\* STRESS_MULTIPLIER, times 100; an unknown level is moderate.
StressFactor100(level) ==
    LET l == StripLower(level, "moderate") IN
    CASE l = "low" -> 100
      [] l = "moderate" -> 103
      [] l = "high" -> 106
      [] OTHER -> 103

\* _bmr_mifflin_st_jeor, times 4.
Bmr4(p) ==
    LET base == 40 * p.personal.weight_kg + 25 * p.personal.height_cm - 20 * p.personal.age
    IN CASE p.personal.gender = "male" -> base + 20
         [] p.personal.gender = "female" -> base - 644
         [] OTHER -> base - 312

\* The goal adjustment, times 20.
GoalFactor20(p) ==
    IF p.special.weight_loss /\ ~p.special.weight_gain THEN 17
    ELSE IF p.special.weight_gain /\ ~p.special.weight_loss THEN 23
    ELSE 20

\* if profile.nutrition.daily_calories: None and 0 are falsy.
HasCalorieOverride(p) ==
    ~IsNone(p.nutrition.daily_calories) /\ TheVal(p.nutrition.daily_calories) # 0

\* int(round(tdee))
RoundTdee(num, den) == RoundHalfEven(num, den)

\* estimate_daily_calories
estimate_daily_calories(p) ==
    IF HasCalorieOverride(p) THEN TheVal(p.nutrition.daily_calories)
    ELSE RoundTdee(Bmr4(p) * ActivityFactor40(p.lifestyle.activity_level)
                       * StressFactor100(p.lifestyle.stress_level) * GoalFactor20(p),
                   4 * 40 * 100 * 20)

\* The sodium limit of estimate_water_salt_sugar, as recommend reads it:
\* int(round(salt_limit_g * 1000 * 0.4)), or 1500 or 2000.
SodiumMgLimit(p) ==
    IF ~IsNone(p.nutrition.salt_limit_g) THEN TheVal(p.nutrition.salt_limit_g) * 40
    ELSE IF "hypertension" \in ConditionSet(p) \/ p.special.low_sodium THEN 1500
    ELSE 2000

(***************************************************************************)
(* planner._compute_meal_split                                             *)
(***************************************************************************)

MealNames == {"breakfast", "lunch", "dinner", "snacks"}

\* DEFAULT_MEAL_SPLIT, in percent.
DefaultMealSplit == [breakfast |-> 25, lunch |-> 35, dinner |-> 30, snacks |-> 10]

\* freq = max(3, min(6, int(meal_frequency or 3)))
ClampFreq(mf) ==
    LET f == IF mf = 0 THEN 3 ELSE mf
        lo == IF f < 6 THEN f ELSE 6
    IN IF lo > 3 THEN lo ELSE 3

\* A snack_base table whose moderate entry is the high one.
SnackBase_ModerateAsHigh(pref) ==
    LET sp == LowerTok(IF pref = "" THEN "moderate" ELSE pref) IN
    CASE sp = "low" -> 7
      [] sp = "moderate" -> 15
      [] sp = "high" -> 15
      [] OTHER -> 10

\* snack_base, in percent; an unknown preference is 0.10.
SnackBase(pref) ==
    LET sp == LowerTok(IF pref = "" THEN "moderate" ELSE pref) IN
    CASE sp = "low" -> 7
      [] sp = "moderate" -> 10
      [] sp = "high" -> 15
      [] OTHER -> 10

\* RawSplit65 without the cap of 0.20 on the snack share.
RawSplit65_Uncapped(p) ==
    LET freq == ClampFreq(p.dietary.meal_frequency)
        base == SnackBase(p.dietary.snacking_preference)
        d == DefaultMealSplit
    IN IF freq >= 4
       THEN LET share == base + 3 * (freq - 3)
                reduce == share - d.snacks
            IN [breakfast |-> 65 * d.breakfast,
                lunch |-> 65 * d.lunch - reduce * d.lunch,
                dinner |-> 65 * d.dinner - reduce * d.dinner,
                snacks |-> 65 * share]
       ELSE [m \in MealNames |-> 65 * d[m]]

\* The split before it is normalised, each share times 65 (lunch and dinner
\* give up reduce * share / 0.65 when there are more than three meals).
RawSplit65(p) ==
    LET freq == ClampFreq(p.dietary.meal_frequency)
        base == SnackBase(p.dietary.snacking_preference)
        d == DefaultMealSplit
    IN IF freq >= 4
       THEN LET extra == 3 * (freq - 3)
                share == IF base + extra < 20 THEN base + extra ELSE 20
                reduce == share - d.snacks
            IN [breakfast |-> 65 * d.breakfast,
                lunch |-> 65 * d.lunch - reduce * d.lunch,
                dinner |-> 65 * d.dinner - reduce * d.dinner,
                snacks |-> 65 * share]
       ELSE LET delta == base - d.snacks
            IN IF delta # 0
               THEN [breakfast |-> 65 * d.breakfast,
                     lunch |-> 65 * (d.lunch - delta),
                     dinner |-> 65 * d.dinner,
                     snacks |-> 65 * base]
               ELSE [m \in MealNames |-> 65 * d[m]]

\* _compute_meal_split: each share divided by the total and rounded to four
\* decimals; the result is in units of 0.0001.
compute_meal_split(p) ==
    LET raw == RawSplit65(p)
        total == raw.breakfast + raw.lunch + raw.dinner + raw.snacks
    IN [m \in MealNames |-> RoundHalfEven(raw[m] * 100 * 100, total)]

(***************************************************************************)
(* planner._pick_items_for_meal, assemble_day_plan, generate_weekly_plan   *)
(***************************************************************************)

\* _to_item: the MealItem of a food (the gram fields are not modelled).
ToItem(f) == [name |-> f.name, calories |-> f.calories, sodium_mg |-> f.sodium_mg]

Abs(x) == IF x < 0 THEN -x ELSE x

\* A sort key of the calorie distance alone.
KeyLess_CaloriesOnly(a, b, target_cal) ==
    Abs(a.calories - target_cal) < Abs(b.calories - target_cal)

\* The sort key (cal_diff(f), f.sodium_mg) of a comes before that of b.
KeyLess(a, b, target_cal) ==
    LET da == Abs(a.calories - target_cal)
        db == Abs(b.calories - target_cal)
    IN da < db \/ (da = db /\ a.sodium_mg < b.sodium_mg)

\* sorted(cands, key=...): stable, so equal keys keep their order.
SortCands(cands, target_cal) ==
    LET n == Len(cands)
        rank(i) == Cardinality({j \in 1..n :
                        \/ KeyLess(cands[j], cands[i], target_cal)
                        \/ (~KeyLess(cands[i], cands[j], target_cal) /\ j < i)})
    IN [k \in 1..n |-> cands[CHOOSE i \in 1..n : rank(i) = k - 1]]

\* The first index of a set of indices (the item next(...) finds), 0 when
\* the set is empty (next(..., None)).
FirstIndex(S) == IF S = {} THEN 0 ELSE CHOOSE i \in S : \A j \in S : i <= j

\* An add-on tried whatever the first item covers.
BelowSixtyPercent_Always(current_cal, target_cal) == TRUE

\* current_cal < 0.6 * target_cal
BelowSixtyPercent(current_cal, target_cal) == 5 * current_cal < 3 * target_cal

\* The body of _pick_items_for_meal once the first fitting item, at index
\* i1 of the sorted candidates cs, is known (0: no item fits the budget).
PickFrom(cs, target_cal, sodium_budget, i1) ==
    IF i1 = 0 THEN <<>>
    ELSE
      LET first == cs[i1]
          budget == sodium_budget - first.sodium_mg
          current_cal == first.calories
          i2 == FirstIndex({i \in DOMAIN cs :
                              /\ cs[i].calories <= target_cal - current_cal
                              /\ cs[i].sodium_mg <= budget
                              /\ cs[i].name # first.name})
      IN IF BelowSixtyPercent(current_cal, target_cal) /\ i2 # 0
         THEN <<ToItem(first), ToItem(cs[i2])>>
         ELSE <<ToItem(first)>>

\* _pick_items_for_meal on the sorted candidates cs.
PickSorted(cs, target_cal, sodium_budget) ==
    PickFrom(cs, target_cal, sodium_budget,
             FirstIndex({i \in DOMAIN cs : cs[i].sodium_mg <= sodium_budget}))

pick_items_for_meal(cands, target_cal, sodium_budget) ==
    IF cands = <<>> THEN <<>>
    ELSE PickSorted(SortCands(cands, target_cal), target_cal, sodium_budget)

\* candidates(meal) = [f for f in filtered if meal in f.meal_types]
Candidates(fs, meal) == SelectSeq(fs, LAMBDA f : meal \in f.meal_types)

\* The planner working on the whole catalog, the rule engine's filter skipped.
PlanFoods_Unfiltered(foods, p, c) == foods

\* filtered = filter_foods(all_foods, profile, constraints) in the planner.
PlanFoods(foods, p, c) == filter_foods(foods, p, c)

\* int(round(split[meal] * calories))
TargetCal(sp, meal, cal) == RoundHalfEven(sp[meal] * cal, 100 * 100)

\* Every slot given the whole sodium limit.
SodiumByMeal_WholeLimit(sp, meal, na) == na

\* int(sodium_limit * split[m]); int truncates towards zero.
SodiumByMeal(sp, meal, na) ==
    IF na >= 0 THEN (na * sp[meal]) \div (100 * 100)
    ELSE -(((-na) * sp[meal]) \div (100 * 100))

NoCandidatesNote(meal) ==
    CASE meal = "breakfast" ->
    "No candidates found for breakfast meeting constraints; consider relaxing dislikes or cuisines."
      [] meal = "lunch" ->
    "No candidates found for lunch meeting constraints; consider relaxing dislikes or cuisines."
      [] meal = "dinner" ->
    "No candidates found for dinner meeting constraints; consider relaxing dislikes or cuisines."

RECURSIVE SumOver(_, _, _)
SumOver(items, field, i) ==
    IF i > Len(items) THEN 0 ELSE items[i][field] + SumOver(items, field, i + 1)

\* snack_cands = candidates("snacks") or candidates("snack")
SnackCands(fl) ==
    IF Candidates(fl, "snacks") # <<>> THEN Candidates(fl, "snacks")
    ELSE Candidates(fl, "snack")

\* meals[m] for the four slots. For snacks the code calls
\* _pick_items_for_meal only when snack_cands is not empty and stores []
\* otherwise, which is what the call returns on an empty list.
MealPicks(fl, sp, cal, na, snack_cands) ==
    [m \in MealNames |->
        pick_items_for_meal(IF m = "snacks" THEN snack_cands ELSE Candidates(fl, m),
                            TargetCal(sp, m, cal), SodiumByMeal(sp, m, na))]

\* The notes of assemble_day_plan, in the order they are appended.
PlannerNotes(ms, snack_cands) ==
    (IF ms.breakfast = <<>> THEN <<NoCandidatesNote("breakfast")>> ELSE <<>>)
    \o (IF ms.lunch = <<>> THEN <<NoCandidatesNote("lunch")>> ELSE <<>>)
    \o (IF ms.dinner = <<>> THEN <<NoCandidatesNote("dinner")>> ELSE <<>>)
    \o (IF snack_cands # <<>> THEN <<>>
        ELSE <<"No snack candidates available under current constraints.">>)

\* totals over the items of all slots.
PlanTotals(all) ==
    [calories |-> SumOver(all, "calories", 1), sodium_mg |-> SumOver(all, "sodium_mg", 1)]

\* The DayPlan and the notes, from the filtered foods fl and the split sp.
AssembleFrom(ms, snack_cands, sp) ==
    [meals |-> ms,
     notes |-> PlannerNotes(ms, snack_cands),
     totals |-> PlanTotals(ms.breakfast \o ms.lunch \o ms.dinner \o ms.snacks),
     split |-> sp]

AssembleFiltered(fl, sp, cal, na, snack_cands) ==
    AssembleFrom(MealPicks(fl, sp, cal, na, snack_cands), snack_cands, sp)

AssembleSplit(fl, sp, cal, na) == AssembleFiltered(fl, sp, cal, na, SnackCands(fl))

\* assemble_day_plan(profile, calories, sodium_limit), foods being what
\* get_foods() returns: [meals, notes, totals, split].
assemble_day_plan(p, cal, na, foods) ==
    AssembleSplit(PlanFoods(foods, p, build_constraints(p).c), compute_meal_split(p), cal, na)

WeekDays == <<"Mon", "Tue", "Wed", "Thu", "Fri", "Sat", "Sun">>

\* A week that holds the first item of each slot on every day.
generate_weekly_plan_NoRotation(ms) ==
    [d \in 1..Len(WeekDays) |->
        [day |-> WeekDays[d],
         meals |-> [m \in MealNames |->
                      IF ms[m] = <<>> THEN <<>> ELSE <<ms[m][1]>>]]]

\* generate_weekly_plan: per day, in order, the day's label and its meals.
generate_weekly_plan(ms) ==
    [d \in 1..Len(WeekDays) |->
        [day |-> WeekDays[d],
         meals |-> [m \in MealNames |->
                      IF ms[m] = <<>> THEN <<>>
                      ELSE <<ms[m][((d - 1) % Len(ms[m])) + 1]>>]]]

(***************************************************************************)
(* Food catalog (data/foods.py): items as get_foods may return them, from  *)
(* the built-in list or from an external foods_catalog.json.               *)
(***************************************************************************)

Food(name, cal, na, gi, tags, diets, mealtypes, cuisines, allergens) ==
    [name |-> name, calories |-> cal, sodium_mg |-> na, gi |-> gi, tags |-> tags,
     diet_types |-> diets, meal_types |-> mealtypes, cuisines |-> cuisines,
     allergens |-> allergens]

Oats == Food(<<"O", "a", "t", "s">>, 180, 120, "low", {"low_gi", "high_fiber"},
             {"veg", "vegan"}, {"breakfast"}, {"global"}, {})
Roti == Food(<<"R", "o", "t", "i">>, 200, 200, "medium", {"whole_grain", "high_fiber"},
             {"veg", "vegan"}, {"lunch", "dinner"}, {"indian"}, {"gluten"})
Tofu == Food(<<"T", "o", "f", "u">>, 180, 15, "low", {"lean_protein", "low_sodium"},
             {"veg", "vegan"}, {"lunch", "dinner"}, {"asian"}, {"soy"})
Rajma == Food(<<"R", "a", "j", "m", "a">>, 240, 300, "low", {"low_gi", "plant_protein"},
              {"veg", "vegan"}, {"lunch", "dinner"}, {"indian"}, {})
Banana == Food(<<"B", "a", "n", "a", "n", "a">>, 105, 1, "medium", {"moderate_gi"},
               {"veg", "vegan"}, {"breakfast", "snack"}, {"global"}, {})
Nuts == Food(<<"N", "u", "t", "s">>, 116, 1, "low", {"healthy_fat", "anti_inflammatory"},
             {"veg", "vegan"}, {"snack"}, {"global"}, {"nuts"})
Hen == Food(<<"H", "e", "n">>, 198, 80, "low", {"lean_protein", "low_sodium"},
            {"non-veg"}, {"lunch", "dinner"}, {"global"}, {})
Tea == Food(<<"T", "e", "a">>, 2, 0, "low", {"anti_inflammatory"},
            {"veg", "vegan", "non-veg"}, {"breakfast", "snack", "dinner"}, {"global"}, {})
Rice == Food(<<"R", "i", "c", "e">>, 215, 10, "high", {"low_sodium"},
             {"veg", "vegan"}, {"lunch", "dinner"}, {"indian", "asian"}, {})
Bar == Food(<<"B", "a", "r">>, 150, 180, "low", {"low_gi", "probiotic"},
            {"veg"}, {"snacks"}, {"global"}, {"lactose"})
Fries == Food(<<"F", "r", "i", "e", "s">>, 310, 420, "high", {"fried", "high_sodium"},
              {"veg", "vegan", "non-veg"}, {"lunch", "snack"}, {"global"}, {})

\* An item of a foods_catalog.json with more sodium than the built-in list has.
Broth == Food(<<"B", "r", "o", "t", "h">>, 220, 700, "medium", {"whole_grain"},
              {"veg", "vegan"}, {"lunch", "dinner"}, {"global"}, {})

\* A catalog with the salty item as the only one for lunch and dinner.
SaltCatalog == <<Oats, Banana, Broth, Bar>>

\* The catalogs get_foods returns in the model: a full one, one in another
\* order that holds an item twice, a short one with no snack, and one that
\* leaves a veg or vegan profile with no food at all.
Catalogs ==
    {<<Oats, Roti, Tofu, Rajma, Banana, Nuts, Hen, Tea, Rice, Bar, Fries>>,
     <<Fries, Tea, Bar, Nuts, Rice, Hen, Banana, Tofu, Tea, Roti>>,
     <<Rajma, Hen, Oats>>,
     <<Hen, Fries>>}

(***************************************************************************)
(* Profiles                                                                *)
(***************************************************************************)

ToggleNames == {"low_gi", "low_sodium", "high_fiber", "renal", "high_protein",
                "anti_inflammatory", "weight_gain", "weight_loss",
                "gluten_free", "lactose_free"}

\* SpecialDietRules with exactly the toggles of T set.
Special(T) == [t \in ToggleNames |-> t \in T]

\* The profile of the repository's tests (tests/test_rules.py), no condition.
BaseProfile ==
    [personal |-> [age |-> 40, gender |-> "male", height_cm |-> 175, weight_kg |-> 80],
     medical |-> [conditions |-> <<>>, allergies |-> <<>>, cholesterol_mgdl |-> None],
     dietary |-> [diet_type |-> "veg", likes |-> <<>>, dislikes |-> <<>>,
                  preferred_cuisine |-> <<>>, meal_frequency |-> 3,
                  snacking_preference |-> "moderate"],
     lifestyle |-> [activity_level |-> "sedentary", stress_level |-> "moderate"],
     nutrition |-> [daily_calories |-> None, salt_limit_g |-> None],
     special |-> Special({})]

\* Condition names a profile may carry: the rule triggers, a trigger in
\* another case, a longer name that contains a trigger, and a name no rule
\* knows.
CondVocab == <<"diabetes", "hypertension", "heart disease", "kidney disease",
               "pcod", "pcos", "gastric", "gastric issues", "thyroid",
               "Diabetes", "type 2 diabetes", "asthma">>

MaxConds == 2
MaxToggles == 2
MaxCalls == 2

\* The lists of at most n names of vocab, in the order of vocab.
ListsUpTo(vocab, n) ==
    LET idx == UNION {[1..k -> 1..Len(vocab)] : k \in 0..n}
        inc == {f \in idx : \A i, j \in DOMAIN f : i < j => f[i] < f[j]}
    IN {[i \in DOMAIN f |-> vocab[f[i]]] : f \in inc}

ToggleSets(n) == {T \in SUBSET ToggleNames : Cardinality(T) <= n}

(***************************************************************************)
(* data/schema.py: compute_bmi, the normalisers and from_dict. An input    *)
(* dict is a record whose absent keys are None; bmi is in hundredths.      *)
(***************************************************************************)

\* compute_bmi: 0.0 when the height is not positive, else
\* round(weight_kg / (height_cm / 100) ** 2, 2).
compute_bmi(height_cm, weight_kg) ==
    IF height_cm <= 0 THEN 0
    ELSE RoundHalfEven(weight_kg * 100 * 100 * 100, height_cm * height_cm)

\* normalize_gender on the tokens inputs carry.
normalize_gender(g) ==
    CASE g \in {"m", "male", "Male", " M"} -> "male"
      [] g \in {"f", "female", "F"} -> "female"
      [] OTHER -> "other"

\* x.strip().lower() on the tokens input lists carry.
StripLowerTok(t) ==
    CASE t = " Diabetes " -> "diabetes"
      [] t = "  " -> ""
      [] OTHER -> LowerTok(t)

\* normalize_list: strip and lower every entry, drop the blank ones.
normalize_list(xs) ==
    LET keep == SelectSeq(xs, LAMBDA x : StripLowerTok(x) # "")
    IN [i \in DOMAIN keep |-> StripLowerTok(keep[i])]

\* str.strip() on a string held as a sequence of characters.
StripSeq(s) ==
    LET idx == {i \in DOMAIN s : s[i] # " "} IN
    IF idx = {} THEN <<>>
    ELSE SubSeq(s, CHOOSE i \in idx : \A j \in idx : i <= j,
                   CHOOSE i \in idx : \A j \in idx : j <= i)

\* normalize_list on a list of names held as sequences of characters.
normalize_names(xs) ==
    LET keep == SelectSeq(xs, LAMBDA x : StripSeq(x) # <<>>)
    IN [i \in DOMAIN keep |-> Lower(StripSeq(keep[i]))]

\* dict.get(key, default) on an absent-or-present value.
GetOr(opt, default) == IF IsNone(opt) THEN default ELSE TheVal(opt)

\* A from_dict that computes the bmi even when one is supplied.
BmiOf_AlwaysCompute(supplied, height_cm, weight_kg) == compute_bmi(height_cm, weight_kg)

\* The bmi from_dict leaves in personal: the supplied one, or compute_bmi.
BmiOf(supplied, height_cm, weight_kg) ==
    IF IsNone(supplied) THEN compute_bmi(height_cm, weight_kg) ELSE TheVal(supplied)

\* The PersonalDetails of from_dict: "height" and "weight" are read before
\* "height_cm" and "weight_kg".
PersonalOf(p) ==
    LET h == GetOr(p.height, GetOr(p.height_cm, 170))
        w == GetOr(p.weight, GetOr(p.weight_kg, 70))
    IN [age |-> GetOr(p.age, 30),
        gender |-> normalize_gender(GetOr(p.gender, "other")),
        height_cm |-> h,
        weight_kg |-> w,
        bmi |-> BmiOf(p.bmi, h, w)]

\* from_dict(data)
from_dict(data) ==
    [personal |-> PersonalOf(data.personal),
     medical |-> [conditions |-> normalize_list(data.medical.conditions),
                  allergies |-> normalize_list(data.medical.allergies),
                  cholesterol_mgdl |-> data.medical.cholesterol_mgdl],
     dietary |-> [diet_type |-> StripLower(data.dietary.diet_type, "veg"),
                  likes |-> normalize_names(data.dietary.likes),
                  dislikes |-> normalize_names(data.dietary.dislikes),
                  preferred_cuisine |-> normalize_list(data.dietary.preferred_cuisine),
                  meal_frequency |-> GetOr(data.dietary.meal_frequency, 3),
                  snacking_preference |-> StripLower(data.dietary.snacking_preference,
                                                     "moderate")],
     lifestyle |-> [activity_level |-> StripLower(data.lifestyle.activity_level, "sedentary"),
                    stress_level |-> StripLower(data.lifestyle.stress_level, "moderate")],
     nutrition |-> [daily_calories |-> data.nutrition.daily_calories,
                    salt_limit_g |-> data.nutrition.salt_limit_g],
     special |-> Special(data.special)]

\* Profiles for the rule engine: conditions and toggles in combination, and
\* cholesterol and allergies with at most one condition and one toggle.
RuleProfiles ==
    {[BaseProfile EXCEPT !.medical.conditions = cs, !.special = Special(T)] :
        cs \in ListsUpTo(CondVocab, MaxConds), T \in ToggleSets(MaxToggles)}
    \cup
    {[BaseProfile EXCEPT !.medical.conditions = cs, !.special = Special(T),
                         !.medical.cholesterol_mgdl = ch, !.medical.allergies = al] :
        cs \in ListsUpTo(CondVocab, 1), T \in ToggleSets(1),
        ch \in {Some(0), Some(199), Some(200), Some(240)},
        al \in {<<>>, <<"Nuts">>, <<"gluten", "Nuts">>}}

(***************************************************************************)
(* The rule engine called on one profile, repeatedly (tests/test_rules.py, *)
(* and recommend, which derives the constraints of a profile twice).       *)
(***************************************************************************)

NoConstraints ==
    [required_tags |-> {}, prefer_tags |-> {}, avoid_tags |-> {}, avoid_names |-> {},
     exclude_allergens |-> {}, diet_types_allowed |-> {}, cuisine_preferences |-> <<>>,
     max_sodium_mg |-> None]

NoSplit == [m \in {"breakfast", "lunch", "dinner", "snacks"} |-> 0]
NoMeals == [m \in {"breakfast", "lunch", "dinner", "snacks"} |-> <<>>]
NoTotals == [calories |-> 0, sodium_mg |-> 0]

\* recommend has not returned.
NoResult == [x \in {} |-> x]

\* Everything but pc, profile and catalog, before any call.
Blank ==
    /\ constraints = NoConstraints
    /\ explanations = <<>>
    /\ filtered = <<>>
    /\ calories = 0
    /\ sodium_limit = 0
    /\ split = NoSplit
    /\ meals = NoMeals
    /\ planner_notes = <<>>
    /\ totals = NoTotals
    /\ weekly = <<>>
    /\ result = NoResult
    /\ hist = <<>>

InitRules ==
    /\ pc = "start"
    /\ profile \in RuleProfiles
    /\ catalog = <<>>
    /\ Blank

\* c, notes = build_constraints(profile)
BuildConstraintsCall ==
    /\ pc \in {"start", "built"}
    /\ Len(hist) < MaxCalls
    /\ LET r == build_constraints(profile) IN
        /\ constraints' = r.c
        /\ explanations' = r.explanations
        /\ hist' = Append(hist, [profile |-> profile, c |-> r.c, e |-> r.explanations])
    /\ profile' = ProfileAfterBuild(profile)
    /\ pc' = "built"
    /\ UNCHANGED <<result, catalog, filtered, calories, sodium_limit, split, meals, planner_notes, totals, weekly>>

NextRules == BuildConstraintsCall

SpecRules == InitRules /\ [][NextRules]_vars

(***************************************************************************)
(* filter_foods driven directly: the constraints come from                 *)
(* build_constraints or from the caller; the user may then add an allergy  *)
(* to the profile and run again (the sidebar of app/main.py).              *)
(***************************************************************************)

MaxEdits == 1

FilterConds == <<"diabetes", "kidney disease", "thyroid", "hypertension">>
DislikeVocab == {<<>>, <<<<"t", "e", "a">>>>, <<<<"A", "N">>, <<"x">>>>}
LikeVocab == {<<>>, <<<<"O", "a", "t">>>>, <<<<"r", "i">>, <<"n", "a">>>>}
CuisineVocab == {<<>>, <<"Indian">>, <<"asian", "global">>}
AllergyVocab == {"gluten", "Nuts", "soy"}

FilterProfiles ==
    {[BaseProfile EXCEPT !.dietary.diet_type = dt, !.medical.conditions = cs,
                         !.special = Special(T), !.medical.allergies = al,
                         !.dietary.dislikes = dl] :
        dt \in {"veg", "vegan", "non-veg"},
        cs \in ListsUpTo(FilterConds, MaxConds),
        T \in {{}, {"gluten_free"}, {"lactose_free"}, {"low_gi"}},
        al \in {<<>>, <<"Nuts">>},
        dl \in DislikeVocab}
    \cup
    {[BaseProfile EXCEPT !.dietary.diet_type = dt, !.medical.conditions = cs,
                         !.dietary.likes = lk, !.dietary.preferred_cuisine = cu] :
        dt \in {"veg", "vegan", "non-veg"},
        cs \in ListsUpTo(FilterConds, 1),
        lk \in LikeVocab,
        cu \in CuisineVocab}

\* ConstraintSpec values a caller of filter_foods may pass on its own:
\* everything relaxed, two required tags, and names, allergens and
\* preferences together.
CallerConstraints ==
    {NoConstraints,
     [NoConstraints EXCEPT !.required_tags = {"high_fiber", "lean_protein"}],
     [NoConstraints EXCEPT !.required_tags = {"low_gi", "plant_protein"},
                           !.avoid_tags = {"high_gi"}],
     [NoConstraints EXCEPT !.avoid_names = {<<"o">>}, !.exclude_allergens = {"soy"},
                           !.prefer_tags = {"low_sodium"},
                           !.cuisine_preferences = <<"indian">>]}

InitFilter ==
    /\ pc = "start"
    /\ profile \in FilterProfiles
    /\ catalog \in Catalogs
    /\ Blank

\* constraints, rule_notes = build_constraints(profile)
DeriveStep(from, to) ==
    /\ pc = from
    /\ LET r == build_constraints(profile) IN
        /\ constraints' = r.c
        /\ explanations' = r.explanations
    /\ profile' = ProfileAfterBuild(profile)
    /\ pc' = to
    /\ UNCHANGED <<result, catalog, filtered, calories, sodium_limit, split, meals, planner_notes,
                   totals, weekly, hist>>

DeriveConstraints == DeriveStep("start", "built")

\* A caller hands filter_foods a ConstraintSpec of its own.
SupplyConstraints ==
    /\ pc = "start"
    /\ hist = <<>>
    /\ \E c \in CallerConstraints : constraints' = c
    /\ pc' = "supplied"
    /\ UNCHANGED <<result, profile, catalog, explanations, filtered, calories, sodium_limit, split, meals,
                   planner_notes, totals, weekly, hist>>

\* filtered = filter_foods(catalog, profile, constraints)
FilterStep(from, to) ==
    /\ pc = from
    /\ filtered' = filter_foods(catalog, profile, constraints)
    /\ pc' = to
    /\ UNCHANGED <<result, profile, catalog, constraints, explanations, calories, sodium_limit, split, meals,
                   planner_notes, totals, weekly, hist>>

\* The user adds one allergy to the profile and asks again; the result of
\* the run before is kept for comparison.
EditAllergies ==
    /\ pc = "filtered"
    /\ Len(hist) < MaxEdits
    /\ \E a \in AllergyVocab :
          profile' = [profile EXCEPT !.medical.allergies = Append(@, a)]
    /\ hist' = Append(hist, [profile |-> profile, filtered |-> filtered])
    /\ pc' = "start"
    /\ constraints' = NoConstraints
    /\ explanations' = <<>>
    /\ filtered' = <<>>
    /\ UNCHANGED <<result, catalog, calories, sodium_limit, split, meals, planner_notes, totals, weekly>>

FilterFoods == FilterStep("built", "filtered")

FilterFoodsSupplied == FilterStep("supplied", "filtered_supplied")

NextFilter ==
    \/ DeriveConstraints
    \/ SupplyConstraints
    \/ FilterFoods
    \/ FilterFoodsSupplied
    \/ EditAllergies

SpecFilter == InitFilter /\ [][NextFilter]_vars

(***************************************************************************)
(* build_constraints on a profile and then on the same profile with more   *)
(* conditions or more special toggles; hist keeps the first profile and    *)
(* its constraints.                                                        *)
(***************************************************************************)

MaxExtras == 2

\* The conditions that can be added to a profile.
ExtraConds == {"diabetes", "Diabetes", "hypertension", "heart disease", "kidney disease",
               "pcos", "gastric", "thyroid"}

ExtendProfiles ==
    {[BaseProfile EXCEPT !.medical.conditions = cs, !.special = Special(T),
                         !.medical.cholesterol_mgdl = ch] :
        cs \in ListsUpTo(CondVocab, 1), T \in ToggleSets(1), ch \in {None, Some(240)}}

InitExtend ==
    /\ pc = "start"
    /\ profile \in ExtendProfiles
    /\ catalog = <<>>
    /\ Blank

\* c, notes = build_constraints(P)
DeriveFirst == DeriveStep("start", "built")

\* The first profile and its constraints, kept once per addition.
Extended(to) ==
    /\ pc \in {"built", "extended"}
    /\ Len(hist) < MaxExtras
    /\ profile' = to
    /\ hist' = Append(hist, IF hist = <<>> THEN [profile |-> profile, c |-> constraints]
                                            ELSE hist[1])
    /\ pc' = "extended"
    /\ UNCHANGED <<result, catalog, constraints, explanations, filtered, calories,
                   sodium_limit, split, meals, planner_notes, totals, weekly>>

\* P' has one more condition than P.
AddCondition ==
    \E c \in ExtraConds \ Range(profile.medical.conditions) :
        Extended([profile EXCEPT !.medical.conditions = Append(@, c)])

\* P' has one more special toggle set to true than P.
SetToggle ==
    \E t \in {x \in ToggleNames : ~profile.special[x]} :
        Extended([profile EXCEPT !.special[t] = TRUE])

\* c', notes' = build_constraints(P')
DeriveExtended == DeriveStep("extended", "rebuilt")

NextExtend ==
    \/ DeriveFirst
    \/ AddCondition
    \/ SetToggle
    \/ DeriveExtended

SpecExtend == InitExtend /\ [][NextExtend]_vars

(***************************************************************************)
(* filter_foods called twice on one catalog, the second time with other    *)
(* soft preferences: likes, cuisine_preferences, prefer_tags. hist keeps   *)
(* the first call.                                                         *)
(***************************************************************************)

PreferVocab == {{}, {"low_sodium"}, {"high_fiber", "anti_inflammatory"}}

PrefsProfiles ==
    {[BaseProfile EXCEPT !.dietary.diet_type = dt, !.medical.conditions = cs,
                         !.dietary.likes = lk, !.dietary.dislikes = dl] :
        dt \in {"veg", "non-veg"},
        cs \in ListsUpTo(FilterConds, 1),
        lk \in LikeVocab,
        dl \in DislikeVocab}

InitPrefs ==
    /\ pc = "start"
    /\ profile \in PrefsProfiles
    /\ catalog \in Catalogs
    /\ Blank

\* The caller changes likes, cuisine_preferences and prefer_tags, nothing
\* else, and calls filter_foods again.
ChangePreferences ==
    /\ pc \in {"filtered", "filtered_supplied"}
    /\ hist = <<>>
    /\ \E lk \in LikeVocab, cu \in CuisineVocab, pt \in PreferVocab :
          /\ <<lk, cu, pt>> # <<profile.dietary.likes, constraints.cuisine_preferences,
                               constraints.prefer_tags>>
          /\ profile' = [profile EXCEPT !.dietary.likes = lk]
          /\ constraints' = [constraints EXCEPT !.cuisine_preferences = [i \in DOMAIN cu |-> LowerTok(cu[i])],
                                                !.prefer_tags = pt]
    /\ hist' = <<[profile |-> profile, c |-> constraints, filtered |-> filtered]>>
    /\ pc' = "changed"
    /\ UNCHANGED <<result, catalog, explanations, filtered, calories, sodium_limit, split,
                   meals, planner_notes, totals, weekly>>

FilterFoodsAgain == FilterStep("changed", "refiltered")

NextPrefs ==
    \/ DeriveConstraints
    \/ SupplyConstraints
    \/ FilterFoods
    \/ FilterFoodsSupplied
    \/ ChangePreferences
    \/ FilterFoodsAgain

SpecPrefs == InitPrefs /\ [][NextPrefs]_vars

(***************************************************************************)
(* The calculators and the meal split on one profile, in the order         *)
(* recommend and assemble_day_plan reach them.                             *)
(***************************************************************************)

\* The scenario profile of the specification: 45, male, 175 cm, 80 kg,
\* sedentary, low stress, no condition, no override, no goal.
ScenarioProfile ==
    [BaseProfile EXCEPT !.personal.age = 45, !.lifestyle.stress_level = "low"]

TargetProfiles ==
    {[BaseProfile EXCEPT !.personal = [age |-> ag, gender |-> g, height_cm |-> h, weight_kg |-> w],
                         !.lifestyle = [activity_level |-> act, stress_level |-> st],
                         !.nutrition.daily_calories = dc,
                         !.special = Special(T)] :
        ag \in {45, 30}, g \in {"male", "female", "other"}, h \in {175, 160},
        w \in {80, 55},
        act \in {"sedentary", "light", "moderate", " Active", "athlete", "couch", ""},
        st \in {"low", "moderate", "HIGH", ""},
        dc \in {None, Some(0), Some(1800), Some(2500)},
        T \in SUBSET {"weight_loss", "weight_gain"}}
    \cup
    {[BaseProfile EXCEPT !.dietary.meal_frequency = mf,
                         !.dietary.snacking_preference = sp] :
        mf \in -2..8, sp \in {"low", "moderate", "high", "Low", "often", ""}}

InitTargets ==
    /\ pc = "start"
    /\ profile \in TargetProfiles
    /\ catalog = <<>>
    /\ Blank

\* calories = estimate_daily_calories(profile)
EstimateStep(from, to) ==
    /\ pc = from
    /\ calories' = estimate_daily_calories(profile)
    /\ pc' = to
    /\ UNCHANGED <<result, profile, catalog, constraints, explanations, filtered, sodium_limit,
                   split, meals, planner_notes, totals, weekly, hist>>

EstimateDailyCalories == EstimateStep("start", "estimated")

\* split = _compute_meal_split(profile)
ComputeMealSplit ==
    /\ pc = "estimated"
    /\ split' = compute_meal_split(profile)
    /\ pc' = "split"
    /\ UNCHANGED <<result, profile, catalog, constraints, explanations, filtered, calories, sodium_limit, meals,
                   planner_notes, totals, weekly, hist>>

NextTargets ==
    \/ EstimateDailyCalories
    \/ ComputeMealSplit

SpecTargets == InitTargets /\ [][NextTargets]_vars

(***************************************************************************)
(* calculators.compute_macros and estimate_water_salt_sugar, engine's      *)
(* explain_rules and the helpers of services/recommender.py. Profiles      *)
(* carry no macro, water or sugar override and the loader's default        *)
(* sleep_hours (7.0). Litres are in hundredths, grams of a macro in tenths.*)
(***************************************************************************)

\* The percentages (protein, carbs, fat) compute_macros ends with.
MacroPercents(p) ==
    LET cs == ConditionSet(p)
        s0 == [p |-> 20, c |-> 50, f |-> 30]
        s1 == IF "diabetes" \in cs \/ p.special.low_gi
              THEN [p |-> 25, c |-> 45, f |-> 30] ELSE s0
        s2 == IF p.special.high_protein THEN [p |-> 30, c |-> 40, f |-> 30] ELSE s1
        Max(a, b) == IF a >= b THEN a ELSE b
        Min(a, b) == IF a <= b THEN a ELSE b
        s3 == IF p.special.weight_loss
              THEN [p |-> Max(s2.p, 30), c |-> Min(s2.c, 45),
                    f |-> 100 - Max(s2.p, 30) - Min(s2.c, 45)]
              ELSE s2
        s4 == IF "kidney disease" \in cs \/ p.special.renal
              THEN [p |-> Min(s3.p, 18), c |-> Max(s3.c, 47),
                    f |-> 100 - Min(s3.p, 18) - Max(s3.c, 47)]
              ELSE s3
    IN IF "heart disease" \in cs \/ HighCholesterol(p)
       THEN [p |-> 100 - Min(s4.f, 30) - Min(s4.c, 50), c |-> Min(s4.c, 50),
             f |-> Min(s4.f, 30)]
       ELSE s4

\* compute_macros(profile, calories): grams rounded to one decimal. The
\* arithmetic is exact; the code's floats agree with it on the calories the
\* specifications reach (where a quotient is an exact tie and the percentage
\* is not a binary fraction the float product decides the rounding).
compute_macros(p, cal) ==
    LET pct == MacroPercents(p) IN
    [protein_g |-> RoundHalfEven(cal * pct.p * 10, 4 * 100),
     carbs_g |-> RoundHalfEven(cal * pct.c * 10, 4 * 100),
     fats_g |-> RoundHalfEven(cal * pct.f * 10, 9 * 100)]

\* water_liters of estimate_water_salt_sugar: 30 ml/kg, 0.5 l more from
\* activity factor 1.55 on, kept within 2.0 and 4.0.
WaterLiters(p) ==
    LET base == 3 * p.personal.weight_kg
                + (IF ActivityFactor40(p.lifestyle.activity_level) >= 62 THEN 50 ELSE 0)
    IN IF base < 200 THEN 200 ELSE IF base > 400 THEN 400 ELSE base

\* sugar_g_limit of estimate_water_salt_sugar.
SugarLimit(p) ==
    IF "diabetes" \in ConditionSet(p) \/ p.special.weight_loss THEN 25
    ELSE IF p.personal.gender = "male" THEN 36 ELSE 30

\* estimate_water_salt_sugar(profile, calories)
estimate_water_salt_sugar(p) ==
    [water_liters |-> WaterLiters(p),
     sodium_mg_limit |-> SodiumMgLimit(p),
     sugar_g_limit |-> SugarLimit(p)]

\* explain_rules: the explanations, then one note per constraint that is
\* set; a note that lists tags is held as its heading and the set it joins.
explain_rules(notes, c) ==
    notes
    \o (IF ~IsNone(c.max_sodium_mg)
        THEN <<[note |-> "Sodium target set to", mg |-> TheVal(c.max_sodium_mg)]>> ELSE <<>>)
    \o (IF c.required_tags # {}
        THEN <<[note |-> "Required tags: ", joined |-> c.required_tags]>> ELSE <<>>)
    \o (IF c.prefer_tags # {}
        THEN <<[note |-> "Preferred tags: ", joined |-> c.prefer_tags]>> ELSE <<>>)
    \o (IF c.exclude_allergens # {}
        THEN <<[note |-> "Allergen filters: ", joined |-> c.exclude_allergens]>> ELSE <<>>)

\* _foods_to_include: the names of the first twelve filtered foods.
foods_to_include(fl) ==
    [i \in 1..(IF Len(fl) < 12 THEN Len(fl) ELSE 12) |-> fl[i].name]

\* _foods_to_avoid: the groups are disjoint, so nothing is deduplicated.
foods_to_avoid(p) ==
    LET cs == ConditionSet(p) IN
    (IF "diabetes" \in cs \/ p.special.low_gi
     THEN <<"refined sugar", "sweetened beverages", "white bread", "refined flour",
            "desserts">> ELSE <<>>)
    \o (IF "hypertension" \in cs \/ p.special.low_sodium
        THEN <<"pickles", "papad", "salted snacks", "processed meats", "instant noodles">>
        ELSE <<>>)
    \o (IF "heart disease" \in cs
        THEN <<"fried foods", "trans fat", "butter-heavy dishes">> ELSE <<>>)
    \o (IF "kidney disease" \in cs \/ p.special.renal
        THEN <<"banana", "coconut water", "tomato puree", "colas">> ELSE <<>>)
    \o (IF "gastric" \in cs \/ "gastric issues" \in cs
        THEN <<"very spicy curries", "deep-fried snacks", "carbonated drinks">> ELSE <<>>)
    \o (IF p.special.gluten_free THEN <<"wheat roti", "atta", "barley">> ELSE <<>>)
    \o (IF p.special.lactose_free THEN <<"milk", "paneer", "yogurt">> ELSE <<>>)

\* _prep_tips, each tip by its first words.
prep_tips(p) ==
    <<"Prefer steaming", "Use herbs", "Portion control">>
    \o (IF "hypertension" \in ConditionSet(p) \/ p.special.low_sodium
        THEN <<"Cook without added salt">> ELSE <<>>)
    \o (IF "diabetes" \in ConditionSet(p) \/ p.special.low_gi
        THEN <<"Choose whole grains">> ELSE <<>>)
    \o (IF p.special.renal THEN <<"Leach vegetables">> ELSE <<>>)

\* _lifestyle_tips, each tip by its first words; the levels are compared
\* as the profile holds them.
lifestyle_tips(p, water_l) ==
    <<[tip |-> "Hydration", liters |-> water_l]>>
    \o (IF p.lifestyle.activity_level \in {"sedentary", "light"}
        THEN <<[tip |-> "Add 30-45 minutes of brisk activity"]>> ELSE <<>>)
    \o (IF p.lifestyle.stress_level = "high"
        THEN <<[tip |-> "Incorporate 10-15 minutes of relaxation"]>> ELSE <<>>)

\* breakdown: per slot of the split, the target and the actual calories.
breakdown(sp, cal, ms) ==
    [m \in MealNames |-> [target_cal |-> TargetCal(sp, m, cal),
                          actual_cal |-> SumOver(ms[m], "calories", 1)]]

\* weekly_diet_plan: per day and slot, the names of the items.
weekly_names(wk) ==
    [d \in DOMAIN wk |->
        [day |-> wk[d].day,
         meals |-> [m \in MealNames |->
                      [k \in DOMAIN wk[d].meals[m] |-> wk[d].meals[m][k].name]]]]

\* constraints_summary
constraints_summary(c) ==
    [required_tags |-> c.required_tags,
     prefer_tags |-> c.prefer_tags,
     avoid_tags |-> c.avoid_tags,
     exclude_allergens |-> c.exclude_allergens,
     diet_types_allowed |-> c.diet_types_allowed,
     cuisine_preferences |-> c.cuisine_preferences,
     max_sodium_mg |-> c.max_sodium_mg]

(***************************************************************************)
(* recommend(profile): the targets, the constraints, the day plan, the     *)
(* weekly plan and the filtered catalog, in the order of the code.         *)
(***************************************************************************)

\* Profiles for recommend: diet, at most one condition, an allergy, dislikes,
\* a calorie override, the meal pattern and a salt limit (in tenths of a gram).
RecProfiles ==
    {[BaseProfile EXCEPT !.dietary.diet_type = dt, !.medical.conditions = cs,
                         !.medical.allergies = al, !.dietary.dislikes = dl,
                         !.nutrition.daily_calories = dc,
                         !.dietary.meal_frequency = mp[1],
                         !.dietary.snacking_preference = mp[2],
                         !.nutrition.salt_limit_g = sl] :
        dt \in {"veg", "vegan", "non-veg"},
        cs \in ListsUpTo(FilterConds, 1),
        al \in {<<>>, <<"Nuts">>},
        dl \in DislikeVocab,
        dc \in {None, Some(1200), Some(1800)},
        mp \in {<<3, "moderate">>, <<5, "high">>},
        sl \in {None, Some(20)}}

\* Profiles with a height that no person has: zero and negative.
ImpossibleProfiles ==
    {[BaseProfile EXCEPT !.personal.height_cm = h, !.dietary.diet_type = dt,
                         !.nutrition.daily_calories = dc] :
        h \in {0, -170}, dt \in {"veg", "non-veg"}, dc \in {None, Some(1800)}}

\* Profiles that supply their own salt limit (tenths of a gram): negative,
\* zero, 5 g and 10 g, with and without hypertension or the low_sodium toggle.
SaltProfiles ==
    {[BaseProfile EXCEPT !.dietary.diet_type = "veg", !.medical.conditions = cs,
                         !.special.low_sodium = ls,
                         !.nutrition.daily_calories = Some(1800),
                         !.nutrition.salt_limit_g = sl] :
        cs \in {<<>>, <<"hypertension">>},
        ls \in BOOLEAN,
        sl \in {Some(-10), Some(0), Some(50), Some(100)}}

Init ==
    /\ pc = "start"
    /\ \/ profile \in RecProfiles \cup ImpossibleProfiles /\ catalog \in Catalogs
       \/ profile \in SaltProfiles /\ catalog \in Catalogs \cup {SaltCatalog}
    /\ Blank

\* calories = estimate_daily_calories(profile);
\* sodium_limit = int(estimate_water_salt_sugar(...)["sodium_mg_limit"])
ComputeTargets ==
    /\ pc = "start"
    /\ calories' = estimate_daily_calories(profile)
    /\ sodium_limit' = SodiumMgLimit(profile)
    /\ pc' = "targets"
    /\ UNCHANGED <<result, profile, catalog, constraints, explanations, filtered, split, meals,
                   planner_notes, totals, weekly, hist>>

\* constraints, rule_notes = build_constraints(profile)
BuildConstraints == DeriveStep("targets", "constraints")

\* A notes list that is the one the call before left behind.
NewNotes_Reused(prev) == prev

\* planner_notes: List[str] = [] in assemble_day_plan: a new, empty list at
\* every call, whatever the call before left in its own.
NewNotes(prev) == <<>>

\* day_plan, planner_notes = assemble_day_plan(profile, calories, sodium_limit)
AssembleDayPlan ==
    /\ pc = "constraints"
    /\ LET r == assemble_day_plan(profile, calories, sodium_limit, catalog) IN
        /\ split' = r.split
        /\ meals' = r.meals
        /\ planner_notes' = NewNotes(planner_notes) \o r.notes
        /\ totals' = r.totals
    /\ pc' = "planned"
    /\ UNCHANGED <<result, profile, catalog, constraints, explanations, filtered, calories,
                   sodium_limit, weekly, hist>>

\* weekly = generate_weekly_plan(day_plan)
GenerateWeeklyPlan ==
    /\ pc = "planned"
    /\ weekly' = generate_weekly_plan(meals)
    /\ pc' = "weekly"
    /\ UNCHANGED <<result, profile, catalog, constraints, explanations, filtered, calories,
                   sodium_limit, split, meals, planner_notes, totals, hist>>

\* catalog = get_foods(); filtered = filter_foods(catalog, profile, constraints)
FilterCatalog == FilterStep("weekly", "returned")

\* The sections of the dict recommend returns.
Sections ==
    {"personalized_meal_plan", "snacks_recommendation", "foods_to_include",
     "foods_to_avoid", "calorie_breakdown", "weekly_diet_plan",
     "hydration_and_lifestyle_tips", "preparation_tips", "nutrition_targets",
     "explanations", "constraints_summary"}

\* A response without the snacks section.
Response_NoSnacksSection(r) == [k \in DOMAIN r \ {"snacks_recommendation"} |-> r[k]]

\* return result
Response(r) == r

\* The response dict of recommend, from the values of its locals.
ResultOf(p, cal, c, rule_notes, sp, ms, notes, tot, wk, fl) ==
    [personalized_meal_plan |-> [breakfast |-> ms.breakfast, lunch |-> ms.lunch,
                                 dinner |-> ms.dinner],
     snacks_recommendation |-> ms.snacks,
     foods_to_include |-> foods_to_include(fl),
     foods_to_avoid |-> foods_to_avoid(p),
     calorie_breakdown |-> [daily_calories |-> cal,
                            macros |-> compute_macros(p, cal),
                            by_meal |-> breakdown(sp, cal, ms),
                            totals |-> tot],
     weekly_diet_plan |-> weekly_names(wk),
     hydration_and_lifestyle_tips |-> lifestyle_tips(p, WaterLiters(p)),
     preparation_tips |-> prep_tips(p),
     nutrition_targets |-> estimate_water_salt_sugar(p),
     explanations |-> explain_rules(rule_notes, c) \o notes,
     constraints_summary |-> constraints_summary(c)]

\* The rest of recommend: the include and avoid lists, the explanations, the
\* calorie breakdown and the response dict.
Respond ==
    /\ pc = "returned"
    /\ result' = Response(ResultOf(profile, calories, constraints, explanations, split,
                                   meals, planner_notes, totals, weekly, filtered))
    /\ pc' = "done"
    /\ UNCHANGED <<profile, catalog, constraints, explanations, filtered, calories,
                   sodium_limit, split, meals, planner_notes, totals, weekly, hist>>

Next ==
    \/ ComputeTargets
    \/ BuildConstraints
    \/ AssembleDayPlan
    \/ GenerateWeeklyPlan
    \/ FilterCatalog
    \/ Respond

Spec == Init /\ [][Next]_vars

(***************************************************************************)
(* batch_cli: recommend on one profile after the other. The locals of      *)
(* recommend and of assemble_day_plan are the variables of the pipeline,   *)
(* left as the call before set them; hist keeps the profiles done and      *)
(* their results.                                                          *)
(***************************************************************************)

MaxBatch == 3

\* The rows of the CSV file.
BatchProfiles ==
    {BaseProfile,
     [BaseProfile EXCEPT !.dietary.diet_type = "non-veg",
                         !.medical.conditions = <<"diabetes">>],
     [BaseProfile EXCEPT !.dietary.diet_type = "vegan",
                         !.dietary.dislikes = <<<<"t", "e", "a">>>>,
                         !.dietary.meal_frequency = 5],
     [BaseProfile EXCEPT !.medical.conditions = <<"thyroid">>,
                         !.nutrition.salt_limit_g = Some(20),
                         !.nutrition.daily_calories = Some(1200)]}

InitBatch ==
    /\ pc = "start"
    /\ profile \in BatchProfiles
    /\ catalog \in Catalogs
    /\ Blank

\* for idx, profile in enumerate(profiles, start=1): the result is written
\* out and the loop goes on to the next row.
NextProfile ==
    /\ pc = "done"
    /\ Len(hist) < MaxBatch - 1
    /\ hist' = Append(hist, [profile |-> profile, result |-> result])
    /\ profile' \in BatchProfiles
    /\ pc' = "start"
    /\ UNCHANGED <<result, catalog, constraints, explanations, filtered, calories,
                   sodium_limit, split, meals, planner_notes, totals, weekly>>

NextBatch ==
    \/ ComputeTargets
    \/ BuildConstraints
    \/ AssembleDayPlan
    \/ GenerateWeeklyPlan
    \/ FilterCatalog
    \/ Respond
    \/ NextProfile

SpecBatch == InitBatch /\ [][NextBatch]_vars

\* recommend(profile) with get_foods() = foods, on its own.
RecommendPlanned(p, foods, cal, bc, plan) ==
    ResultOf(p, cal, bc.c, bc.explanations, plan.split, plan.meals, plan.notes, plan.totals,
             generate_weekly_plan(plan.meals), filter_foods(foods, p, bc.c))

RecommendWith(p, foods, cal, na, bc) ==
    RecommendPlanned(p, foods, cal, bc, assemble_day_plan(p, cal, na, foods))

recommend(p, foods) ==
    RecommendWith(p, foods, estimate_daily_calories(p), SodiumMgLimit(p), build_constraints(p))

(***************************************************************************)
(* compute_macros called on its own: result holds the locals p_pct, c_pct  *)
(* and f_pct once the rules have run, then the grams the call returns.     *)
(***************************************************************************)

\* Profiles without supplied macros: every combination of the conditions and
\* toggles compute_macros reads, and a cholesterol value below, at and above 200.
MacroProfiles ==
    {[BaseProfile EXCEPT !.medical.conditions = cs,
                         !.medical.cholesterol_mgdl = ch,
                         !.special = Special(T)] :
        cs \in {<<>>, <<"diabetes">>, <<"kidney disease">>, <<"heart disease">>,
                <<"diabetes", "kidney disease">>, <<"kidney disease", "heart disease">>,
                <<"diabetes", "heart disease">>,
                <<"diabetes", "kidney disease", "heart disease">>},
        ch \in {None, Some(199), Some(200), Some(240)},
        T \in SUBSET {"low_gi", "high_protein", "weight_loss", "renal"}}

MacroCalories == {1800, 2000}

InitMacros ==
    /\ pc = "start"
    /\ profile \in MacroProfiles
    /\ catalog = <<>>
    /\ calories \in MacroCalories
    /\ constraints = NoConstraints
    /\ explanations = <<>>
    /\ filtered = <<>>
    /\ sodium_limit = 0
    /\ split = NoSplit
    /\ meals = NoMeals
    /\ planner_notes = <<>>
    /\ totals = NoTotals
    /\ weekly = <<>>
    /\ result = NoResult
    /\ hist = <<>>

\* p_pct, c_pct, f_pct after the last rule, in percent.
ApplyMacroRules ==
    /\ pc = "start"
    /\ result' = MacroPercents(profile)
    /\ pc' = "percents"
    /\ UNCHANGED <<profile, catalog, constraints, explanations, filtered, calories,
                   sodium_limit, split, meals, planner_notes, totals, weekly, hist>>

\* The grams compute_macros returns.
ConvertToGrams ==
    /\ pc = "percents"
    /\ result' = compute_macros(profile, calories)
    /\ hist' = <<result>>
    /\ pc' = "macros"
    /\ UNCHANGED <<profile, catalog, constraints, explanations, filtered, calories,
                   sodium_limit, split, meals, planner_notes, totals, weekly>>

NextMacros ==
    \/ ApplyMacroRules
    \/ ConvertToGrams

SpecMacros == InitMacros /\ [][NextMacros]_vars

(***************************************************************************)
(* _pick_items_for_meal called on its own: catalog holds cands, calories   *)
(* target_cal, sodium_limit sodium_budget, and meals.lunch the list it     *)
(* returns.                                                                *)
(***************************************************************************)

\* Candidate lists: the catalogs, no candidate, equal calories with
\* different sodium, and equal keys throughout.
PickCands ==
    Catalogs \cup {<<>>, <<Oats, Tofu, Roti>>, <<Roti, Oats, Tea, Banana>>, <<Tofu, Hen, Bar, Nuts>>}

PickTargets == {-50, 0, 4, 190, 200, 250, 300, 330, 400, 700}

PickBudgets == {-1, 0, 1, 15, 100, 150, 200, 300, 500}

InitPick ==
    /\ pc = "start"
    /\ profile = BaseProfile
    /\ catalog \in PickCands
    /\ calories \in PickTargets
    /\ sodium_limit \in PickBudgets
    /\ constraints = NoConstraints
    /\ explanations = <<>>
    /\ filtered = <<>>
    /\ split = NoSplit
    /\ meals = NoMeals
    /\ planner_notes = <<>>
    /\ totals = NoTotals
    /\ weekly = <<>>
    /\ result = NoResult
    /\ hist = <<>>

\* picks = _pick_items_for_meal(cands, target_cal, sodium_budget)
PickItems ==
    /\ pc = "start"
    /\ meals' = [meals EXCEPT !.lunch = pick_items_for_meal(catalog, calories, sodium_limit)]
    /\ pc' = "picked"
    /\ UNCHANGED <<result, profile, catalog, constraints, explanations, filtered, calories,
                   sodium_limit, split, planner_notes, totals, weekly, hist>>

NextPick == PickItems

SpecPick == InitPick /\ [][NextPick]_vars

(***************************************************************************)
(* Properties of compute_macros (SpecMacros)                               *)
(***************************************************************************)

\* C30: for every profile without user-supplied macros, the protein,
\* carbohydrate and fat percentages compute_macros ends with are each
\* non-negative and sum to 100%, and for every profile with condition
\* "kidney disease" or special.renal = true the protein percentage is at
\* most 18%, whatever other conditions and toggles (diabetes, high_protein,
\* weight_loss, heart disease, cholesterol >= 200) are also present.
C30_MacroPercentages ==
    pc = "percents" =>
        /\ result.p >= 0 /\ result.c >= 0 /\ result.f >= 0
        /\ result.p + result.c + result.f = 100
        /\ (\/ \E i \in DOMAIN profile.medical.conditions :
                  LowerTok(profile.medical.conditions[i]) = "kidney disease"
            \/ profile.special.renal)
              => result.p <= 18

(***************************************************************************)
(* Properties of _pick_items_for_meal (SpecPick)                           *)
(***************************************************************************)

\* The candidates whose sodium_mg is at most the sodium budget.
WithinBudget == {i \in DOMAIN catalog : catalog[i].sodium_mg <= sodium_limit}

\* |calories - target_cal| of candidate i.
CalDiff(i) == Abs(catalog[i].calories - calories)

\* C25: _pick_items_for_meal returns an empty list exactly when no candidate
\* has sodium_mg at most the sodium budget; otherwise its first item is a
\* candidate within the budget that minimises |calories - target_cal| among
\* such candidates, ties broken by lower sodium_mg.
C25_FirstPick ==
    pc = "picked" =>
        /\ (meals.lunch = <<>>) <=> (WithinBudget = {})
        /\ meals.lunch # <<>> =>
              \E i \in WithinBudget :
                  /\ meals.lunch[1] = ToItem(catalog[i])
                  /\ \A j \in WithinBudget :
                        \/ CalDiff(i) < CalDiff(j)
                        \/ /\ CalDiff(i) = CalDiff(j)
                           /\ catalog[i].sodium_mg <= catalog[j].sodium_mg

\* C25 witness: two candidates within the budget are equally close to the
\* target, a third one closer still is over the budget, and the one of the
\* two with less sodium was picked although it comes later in the list.
C25_Witness ==
    /\ pc = "picked"
    /\ meals.lunch # <<>>
    /\ \E i, j \in WithinBudget, k \in DOMAIN catalog \ WithinBudget :
          /\ j < i
          /\ CalDiff(i) = CalDiff(j)
          /\ catalog[i].sodium_mg < catalog[j].sodium_mg
          /\ CalDiff(k) < CalDiff(i)
          /\ meals.lunch[1] = ToItem(catalog[i])

\* The candidates that may follow the first item: another name, calories
\* within what is left of target_cal, sodium within what is left of the
\* budget.
AddOns ==
    {i \in DOMAIN catalog :
        /\ catalog[i].name # meals.lunch[1].name
        /\ catalog[i].calories <= calories - meals.lunch[1].calories
        /\ catalog[i].sodium_mg <= sodium_limit - meals.lunch[1].sodium_mg}

\* Candidate i comes no later than candidate j in calorie-closeness order:
\* by |calories - target_cal|, then sodium_mg, then position in the list.
NoLater(i, j) ==
    \/ CalDiff(i) < CalDiff(j)
    \/ CalDiff(i) = CalDiff(j) /\ catalog[i].sodium_mg < catalog[j].sodium_mg
    \/ CalDiff(i) = CalDiff(j) /\ catalog[i].sodium_mg = catalog[j].sodium_mg /\ i <= j

\* C26: _pick_items_for_meal returns at most two items; a second item is
\* present only if the first item's calories are below 60% of target_cal,
\* and then the two items have different names, their calories sum to at
\* most target_cal and their sodium sums to at most the sodium budget; the
\* second item is the first candidate in calorie-closeness order that meets
\* these conditions.
C26_SecondPick ==
    pc = "picked" =>
        /\ Len(meals.lunch) <= 2
        /\ Len(meals.lunch) = 2 =>
              /\ 5 * meals.lunch[1].calories < 3 * calories
              /\ meals.lunch[1].name # meals.lunch[2].name
              /\ meals.lunch[1].calories + meals.lunch[2].calories <= calories
              /\ meals.lunch[1].sodium_mg + meals.lunch[2].sodium_mg <= sodium_limit
              /\ \E i \in AddOns :
                    /\ meals.lunch[2] = ToItem(catalog[i])
                    /\ \A j \in AddOns : NoLater(i, j)

\* C26 witness: two items were picked, and a candidate closer to the target
\* than the second one was passed over because it did not fit.
C26_Witness ==
    /\ pc = "picked"
    /\ Len(meals.lunch) = 2
    /\ \E i \in AddOns, k \in DOMAIN catalog \ AddOns :
          /\ meals.lunch[2] = ToItem(catalog[i])
          /\ catalog[k].name # meals.lunch[1].name
          /\ CalDiff(k) < CalDiff(i)

(***************************************************************************)
(* from_dict on an input dict (load_profile_json, batch_cli, the UI): the  *)
(* input is kept in hist for comparison with the profile it yields.        *)
(***************************************************************************)

\* The empty input dict: every key absent.
RawBase ==
    [personal |-> [age |-> None, gender |-> None, height |-> None, height_cm |-> None,
                   weight |-> None, weight_kg |-> None, bmi |-> None],
     medical |-> [conditions |-> <<>>, allergies |-> <<>>, cholesterol_mgdl |-> None],
     dietary |-> [diet_type |-> "", likes |-> <<>>, dislikes |-> <<>>,
                  preferred_cuisine |-> <<>>, meal_frequency |-> None,
                  snacking_preference |-> ""],
     lifestyle |-> [activity_level |-> "", stress_level |-> ""],
     nutrition |-> [daily_calories |-> None, salt_limit_g |-> None],
     special |-> {}]

\* Input dicts: the personal section in combination, heights that are not
\* positive included, and the other sections with entries to normalise.
RawInputs ==
    {[RawBase EXCEPT !.personal = [age |-> None, gender |-> g, height |-> h,
                                   height_cm |-> hc, weight |-> None, weight_kg |-> w,
                                   bmi |-> b]] :
        g \in {None, Some(" M")},
        h \in {None, Some(180)},
        hc \in {None, Some(170), Some(160), Some(0), Some(-170)},
        w \in {None, Some(70), Some(8)},
        b \in {None, Some(0), Some(2422), Some(3000)}}
    \cup
    {[RawBase EXCEPT !.personal.age = Some(45), !.personal.weight = Some(80),
                     !.medical.conditions = cs, !.dietary.dislikes = dl,
                     !.dietary.diet_type = dt, !.special = T] :
        cs \in {<<>>, <<" Diabetes ", "  ">>, <<"Thyroid", "asthma">>},
        dl \in {<<>>, <<<<" ", "T", "e", "a", " ">>, <<" ">>>>},
        dt \in {"", "vegan"},
        T \in {{}, {"renal"}}}

InitLoad ==
    /\ pc = "raw"
    /\ profile \in RawInputs
    /\ catalog = <<>>
    /\ Blank

\* profile = from_dict(data)
FromDict ==
    /\ pc = "raw"
    /\ profile' = from_dict(profile)
    /\ hist' = <<profile>>
    /\ pc' = "loaded"
    /\ UNCHANGED <<result, catalog, constraints, explanations, filtered, calories, sodium_limit,
                   split, meals, planner_notes, totals, weekly>>

NextLoad == FromDict

SpecLoad == InitLoad /\ [][NextLoad]_vars

(***************************************************************************)
(* Properties of build_constraints (SpecRules)                             *)
(***************************************************************************)

HasCondition(p, name) == \E i \in DOMAIN p.medical.conditions :
                             LowerTok(p.medical.conditions[i]) = name

\* C3: for every profile whose conditions include "diabetes", whatever its
\* other fields, build_constraints returns "low_gi" in required_tags and
\* "refined_sugar" in avoid_tags.
C3_DiabetesConstraints ==
    (pc = "built" /\ "diabetes" \in Range(profile.medical.conditions))
        => /\ "low_gi" \in constraints.required_tags
           /\ "refined_sugar" \in constraints.avoid_tags

\* A diabetes profile with no other source of low_gi has been processed.
C3_Witness ==
    /\ pc = "built"
    /\ Range(profile.medical.conditions) = {"diabetes", "hypertension"}
    /\ ~profile.special.low_gi
    /\ "low_gi" \in constraints.required_tags
    /\ "refined_sugar" \in constraints.avoid_tags

\* C4: with condition "hypertension" or special.low_sodium, max_sodium_mg
\* is set and at most 1500; with neither, max_sodium_mg is None.
C4_SodiumLimit ==
    pc = "built" =>
        IF HasCondition(profile, "hypertension") \/ profile.special.low_sodium
        THEN /\ ~IsNone(constraints.max_sodium_mg)
             /\ TheVal(constraints.max_sodium_mg) <= 1500
        ELSE IsNone(constraints.max_sodium_mg)

\* The limit was set by the toggle alone.
C4_Witness ==
    /\ pc = "built"
    /\ profile.special.low_sodium
    /\ ~HasCondition(profile, "hypertension")
    /\ constraints.max_sodium_mg = Some(1500)

\* C5: avoid_names is exactly {banana, rajma} for kidney disease or
\* special.renal, united with {tofu} for thyroid; nothing else adds a name.
C5_AvoidNames ==
    pc = "built" =>
        constraints.avoid_names =
            (IF HasCondition(profile, "kidney disease") \/ profile.special.renal
             THEN {banana, rajma} ELSE {})
            \cup (IF HasCondition(profile, "thyroid") THEN {tofu} ELSE {})

\* A profile with both a renal trigger and thyroid has been processed.
C5_Witness ==
    /\ pc = "built"
    /\ HasCondition(profile, "thyroid")
    /\ profile.special.renal
    /\ constraints.avoid_names = {banana, rajma, tofu}

NamesDiabetes(c) == c \in {"diabetes", "Diabetes", "type 2 diabetes"}

\* C15: a profile whose only condition contains "diabetes" as a substring,
\* in any case, gets the constraints and the explanations of the same
\* profile with the condition "diabetes".
C15_SubstringMatch ==
    (/\ pc = "built"
     /\ Len(profile.medical.conditions) = 1
     /\ NamesDiabetes(profile.medical.conditions[1]))
        => LET r == build_constraints(
                        [profile EXCEPT !.medical.conditions = <<"diabetes">>])
           IN /\ constraints = r.c
              /\ explanations = r.explanations

\* C16: when P' differs from P only by extra conditions or extra special
\* toggles set to true, each of required_tags, prefer_tags, avoid_tags,
\* avoid_names and exclude_allergens of build_constraints(P') contains the
\* one of build_constraints(P), and max_sodium_mg of P' is set whenever
\* that of P is and is never greater.
C16_OnlyAdds ==
    pc = "rebuilt" =>
        /\ hist[1].c.required_tags \subseteq constraints.required_tags
        /\ hist[1].c.prefer_tags \subseteq constraints.prefer_tags
        /\ hist[1].c.avoid_tags \subseteq constraints.avoid_tags
        /\ hist[1].c.avoid_names \subseteq constraints.avoid_names
        /\ hist[1].c.exclude_allergens \subseteq constraints.exclude_allergens
        /\ ~IsNone(hist[1].c.max_sodium_mg) =>
              /\ ~IsNone(constraints.max_sodium_mg)
              /\ TheVal(constraints.max_sodium_mg) <= TheVal(hist[1].c.max_sodium_mg)

\* C16 witness: a profile with a renal trigger and a sodium limit was given
\* the condition thyroid and a toggle; the constraints of the new profile
\* keep banana and rajma, add tofu, and keep the limit.
C16_Witness ==
    /\ pc = "rebuilt"
    /\ Len(hist) = 2
    /\ hist[1].c.avoid_names = {banana, rajma}
    /\ hist[1].c.max_sodium_mg = Some(1500)
    /\ constraints.avoid_names = {banana, rajma, tofu}
    /\ constraints.max_sodium_mg = Some(1500)
    /\ constraints.required_tags # hist[1].c.required_tags

\* The rules in the order the claim gives them: whether the profile
\* triggers the rule, and the sentence of the rule.
RuleTable(p) ==
    << <<HasCondition(p, "diabetes"),
         "Applied diabetes rules: prefer low GI, high fiber; avoid refined sugar/carbs.">>,
       <<HasCondition(p, "hypertension") \/ p.special.low_sodium,
         "Applied hypertension/low sodium rules: limit sodium ~1500 mg/day, avoid high-sodium foods.">>,
       <<HasCondition(p, "heart disease") \/ HighCholesterol(p),
         "Applied heart/cholesterol rules: prefer omega-3 and anti-inflammatory; avoid fried/processed/high saturated fat.">>,
       <<HasCondition(p, "kidney disease") \/ p.special.renal,
         "Applied renal rules: limit potassium/phosphorus; avoid banana/rajma in this catalog.">>,
       <<HasCondition(p, "pcod") \/ HasCondition(p, "pcos"),
         "Applied PCOD/PCOS rules: low GI, anti-inflammatory, high fiber, lean protein.">>,
       <<HasCondition(p, "gastric") \/ HasCondition(p, "gastric issues"),
         "Applied gastric rules: avoid spicy/fried; emphasize gentle fiber and cooked veg.">>,
       <<HasCondition(p, "thyroid"),
         "Applied thyroid caution: limited soy-heavy items (e.g., tofu).">>,
       <<p.special.low_gi, "Special: Low GI enabled.">>,
       <<p.special.high_fiber, "Special: High fiber enabled.">>,
       <<p.special.high_protein, "Special: High protein enabled.">>,
       <<p.special.anti_inflammatory, "Special: Anti-inflammatory enabled.">>,
       <<p.special.gluten_free, "Special: Gluten-free enabled.">>,
       <<p.special.lactose_free, "Special: Lactose-free enabled.">> >>

\* The sentences of the triggered rules, in the order of the table.
Triggered(p) == SelectSeq(RuleTable(p), LAMBDA r : r[1])

\* C22: the explanation list of build_constraints holds exactly one
\* sentence per triggered rule and none for the others, in the fixed order
\* of the rules, whatever the order of the profile's condition list.
C22_OneSentencePerRule ==
    pc \in {"built", "rebuilt"} =>
        explanations = [i \in DOMAIN Triggered(profile) |-> Triggered(profile)[i][2]]

\* C22 witness: the conditions are listed against the order of the rules
\* (thyroid before diabetes), a toggle is on, and the three sentences come
\* in the order of the rules.
C22_Witness ==
    /\ pc = "rebuilt"
    /\ profile.medical.conditions = <<"thyroid", "diabetes">>
    /\ profile.special.high_fiber
    /\ explanations =
          <<"Applied diabetes rules: prefer low GI, high fiber; avoid refined sugar/carbs.",
            "Applied thyroid caution: limited soy-heavy items (e.g., tofu).",
            "Special: High fiber enabled.">>

\* C23: required_tags and avoid_tags of build_constraints are disjoint, and
\* avoid_tags contains fried, processed, refined_sugar and refined_carbs.
C23_DisjointWithBaseline ==
    pc \in {"built", "rebuilt"} =>
        /\ constraints.required_tags \cap constraints.avoid_tags = {}
        /\ {"fried", "processed", "refined_sugar", "refined_carbs"} \subseteq constraints.avoid_tags

\* C23 witness: a tag is required and rules have added to the baseline of
\* avoid_tags.
C23_Witness ==
    /\ pc = "rebuilt"
    /\ constraints.required_tags = {"low_gi"}
    /\ {"high_gi", "high_sodium", "spicy"} \subseteq constraints.avoid_tags
    /\ {"fried", "processed", "refined_sugar", "refined_carbs"} \subseteq constraints.avoid_tags

(***************************************************************************)
(* Properties of filter_foods (SpecFilter)                                 *)
(***************************************************************************)

Filtered == pc \in {"filtered", "filtered_supplied"}

\* Number of places of the sequence fs that hold f.
Count(f, fs) == Cardinality({i \in DOMAIN fs : fs[i] = f})

\* C1: every food filter_foods returns has profile.dietary.diet_type among
\* its diet_types, whatever the constraints, likes, dislikes and toggles; a
\* vegan profile never receives a food whose diet_types omits "vegan".
C1_DietTypeGate ==
    Filtered =>
        \A i \in DOMAIN filtered :
            /\ profile.dietary.diet_type \in filtered[i].diet_types
            /\ (profile.dietary.diet_type = "vegan" => "vegan" \in filtered[i].diet_types)

\* A vegan profile got a non-empty result from a catalog that holds
\* non-vegan foods, with every other constraint relaxed.
C1_Witness ==
    /\ pc = "filtered_supplied"
    /\ constraints = NoConstraints
    /\ profile.dietary.diet_type = "vegan"
    /\ filtered # <<>>
    /\ \E i \in DOMAIN catalog : "vegan" \notin catalog[i].diet_types

\* C7: with the catalog fixed, after one more allergy is added to
\* medical.allergies the foods filter_foods returns (under the constraints
\* build_constraints derives) are among those returned before, each no more
\* often than before, so the count does not grow.
C7_AllergyMonotone ==
    (pc = "filtered" /\ hist # <<>>) =>
        LET before == hist[Len(hist)].filtered IN
        /\ \A i \in DOMAIN filtered : Count(filtered[i], filtered) <= Count(filtered[i], before)
        /\ Len(filtered) <= Len(before)

\* An added allergy removed a food that was returned before.
C7_Witness ==
    /\ pc = "filtered"
    /\ hist # <<>>
    /\ filtered # <<>>
    /\ Len(filtered) < Len(hist[Len(hist)].filtered)

\* The required-tags check as the claims state it: with "low_gi" required
\* the food has gi "low" or the tag "low_gi"; of the other required tags,
\* when there are any, the food has at least one.
PassesRequired(f, c) ==
    /\ "low_gi" \in c.required_tags => (f.gi = "low" \/ "low_gi" \in f.tags)
    /\ c.required_tags \ {"low_gi"} # {} => f.tags \cap (c.required_tags \ {"low_gi"}) # {}

\* The six hard rejections other than the required-tags check.
RejectedOtherwise(f, p, c) ==
    \/ p.dietary.diet_type \notin f.diet_types
    \/ f.allergens \cap c.exclude_allergens # {}
    \/ \E n \in c.avoid_names : IsSubstr(n, Lower(f.name))
    \/ f.tags \cap c.avoid_tags # {}
    \/ ("high_gi" \in c.avoid_tags /\ f.gi = "high")
    \/ \E d \in Range(p.dietary.dislikes) : IsSubstr(Lower(d), Lower(f.name))

\* C18: filter_foods returns exactly the catalog foods for which none of
\* the seven hard rejections holds, each as many times as it occurs in the
\* catalog, and no step changes the catalog list.
C18_ExactlyAllowed ==
    /\ [](Filtered =>
             /\ \A i \in DOMAIN catalog :
                   Count(catalog[i], filtered) =
                      IF RejectedOtherwise(catalog[i], profile, constraints)
                            \/ ~PassesRequired(catalog[i], constraints)
                      THEN 0 ELSE Count(catalog[i], catalog)
             /\ Range(filtered) \subseteq Range(catalog))
    /\ [][catalog' = catalog]_vars

\* C18 witness: from a catalog that holds a food twice, filter_foods
\* returned that food twice and turned other foods away, one of them for a
\* dislike that is a proper part of its name.
C18_Witness ==
    /\ Filtered
    /\ \E i \in DOMAIN filtered : Count(filtered[i], filtered) = 2
    /\ Len(filtered) < Len(catalog)
    /\ \E i \in DOMAIN catalog :
          /\ \E d \in Range(profile.dietary.dislikes) :
                /\ IsSubstr(Lower(d), Lower(catalog[i].name))
                /\ Lower(d) # Lower(catalog[i].name)
          /\ Count(catalog[i], filtered) = 0

\* C19: with "low_gi" required a returned food has gi "low" or the tag
\* "low_gi"; of the remaining required tags, when there are any, a returned
\* food has at least one, and a catalog food that nothing else rejects is
\* returned when it has one of them (any-of) and rejected when it has none.
C19_RequiredTags ==
    Filtered =>
        /\ \A i \in DOMAIN filtered : PassesRequired(filtered[i], constraints)
        /\ \A i \in DOMAIN catalog :
              ~RejectedOtherwise(catalog[i], profile, constraints) =>
                 (PassesRequired(catalog[i], constraints)
                     <=> \E k \in DOMAIN filtered : filtered[k] = catalog[i])

\* C19 witness: two tags besides "low_gi" are required; a food with only one
\* of them is returned, and a food with gi "low" and no tag "low_gi" passed
\* the low_gi part in another call.
C19_Witness ==
    /\ Filtered
    /\ \/ /\ constraints.required_tags = {"high_fiber", "lean_protein"}
          /\ \E i \in DOMAIN filtered :
                /\ "high_fiber" \in filtered[i].tags
                /\ "lean_protein" \notin filtered[i].tags
          /\ \E i \in DOMAIN catalog :
                /\ ~RejectedOtherwise(catalog[i], profile, constraints)
                /\ Count(catalog[i], filtered) = 0
       \/ /\ constraints.required_tags = {"low_gi", "plant_protein"}
          /\ filtered # <<>>
          /\ \E i \in DOMAIN catalog :
                /\ ~RejectedOtherwise(catalog[i], profile, constraints)
                /\ catalog[i].gi = "low"
                /\ Count(catalog[i], filtered) = 0

\* C20: for a fixed catalog, two calls of filter_foods that differ only in
\* profile.dietary.likes, constraints.cuisine_preferences or
\* constraints.prefer_tags return the same foods, each as often; only the
\* order may differ.
C20_SoftNeverRejects ==
    pc = "refiltered" =>
        /\ Range(filtered) = Range(hist[1].filtered)
        /\ \A i \in DOMAIN filtered :
              Count(filtered[i], filtered) = Count(filtered[i], hist[1].filtered)

\* C20 witness: the second call returned the foods of the first in another
\* order, and one of them has no preference point in the second call.
C20_Witness ==
    /\ pc = "refiltered"
    /\ filtered # hist[1].filtered
    /\ Len(filtered) >= 3
    /\ Score(filtered[1], profile, constraints) > 0
    /\ Score(filtered[Len(filtered)], profile, constraints) = 0
    /\ Score(filtered[Len(filtered)], hist[1].profile, hist[1].c) > 0

\* The places of the sequence fs that hold a or b, in order.
Pattern(fs, a, b) == SelectSeq(fs, LAMBDA f : f \in {a, b})

\* C21: the list filter_foods returns is in non-increasing order of score,
\* and two returned foods of equal score stand in the order they have in
\* the catalog.
C21_SortedStable ==
    pc \in {"filtered", "filtered_supplied", "refiltered"} =>
        \A i, j \in DOMAIN filtered :
            i < j =>
               /\ Score(filtered[i], profile, constraints) >= Score(filtered[j], profile, constraints)
               /\ Score(filtered[i], profile, constraints) = Score(filtered[j], profile, constraints)
                     => Pattern(filtered, filtered[i], filtered[j])
                           = Pattern(catalog, filtered[i], filtered[j])

\* C21 witness: the returned list differs from the catalog order, holds
\* three different scores, and two foods of the top score stand as in the
\* catalog.
C21_Witness ==
    /\ pc \in {"filtered", "filtered_supplied", "refiltered"}
    /\ Len(filtered) >= 4
    /\ Score(filtered[1], profile, constraints) = Score(filtered[2], profile, constraints)
    /\ filtered[1] # filtered[2]
    /\ Score(filtered[2], profile, constraints) > Score(filtered[Len(filtered) - 1], profile, constraints)
    /\ Score(filtered[Len(filtered) - 1], profile, constraints) > Score(filtered[Len(filtered)], profile, constraints)
    /\ \E i, j \in DOMAIN catalog :
          i < j /\ catalog[i] = filtered[Len(filtered)] /\ catalog[j] = filtered[1]

(***************************************************************************)
(* Properties of the calculators and the meal split (SpecTargets)          *)
(***************************************************************************)

Estimated == pc \in {"estimated", "split"}

\* C8: whenever nutrition.daily_calories is present (not None),
\* estimate_daily_calories returns exactly that value, whatever the personal,
\* lifestyle and special fields are.
C8_OverrideWhenPresent ==
    (Estimated /\ ~IsNone(profile.nutrition.daily_calories))
        => calories = TheVal(profile.nutrition.daily_calories)

\* C9: for the scenario profile (45, male, 175 cm, 80 kg, sedentary, low
\* stress, no condition, no override, no goal) estimate_daily_calories
\* returns 2009, the TDEE 1673.75 * 1.2 * 1.0 = 2008.5 rounded.
C9_Scenario2009 ==
    (Estimated /\ profile = ScenarioProfile) => calories = 2009

\* C10: for meal_frequency 3 and snacking_preference "moderate" the split
\* is exactly breakfast 0.25, lunch 0.35, dinner 0.30, snacks 0.10.
C10_DefaultSplit ==
    (pc = "split" /\ profile.dietary.meal_frequency = 3
                  /\ profile.dietary.snacking_preference = "moderate")
        => split = [breakfast |-> 2500, lunch |-> 3500, dinner |-> 3000, snacks |-> 1000]

\* The split of a three-meal, moderate-snacking profile has been computed.
C10_Witness ==
    /\ pc = "split"
    /\ profile.dietary.meal_frequency = 3
    /\ profile.dietary.snacking_preference = "moderate"
    /\ split.lunch = 3500
    /\ split.snacks = 1000

\* C24: for every meal_frequency and snacking_preference the four fractions
\* of _compute_meal_split are strictly positive, the snacks fraction is at
\* most 0.20, and the fractions, rounded to four decimals, sum to 1.0.
C24_SplitIsDistribution ==
    pc = "split" =>
        /\ \A m \in MealNames : split[m] > 0
        /\ split.snacks <= 2000
        /\ split.breakfast + split.lunch + split.dinner + split.snacks = 100 * 100

\* C24 witness: a meal_frequency above six with a high snacking preference
\* reaches the cap of the snacks fraction, and lunch and dinner are not
\* multiples of 0.01.
C24_Witness ==
    /\ pc = "split"
    /\ profile.dietary.meal_frequency = 8
    /\ profile.dietary.snacking_preference = "high"
    /\ split = [breakfast |-> 2500, lunch |-> 2962, dinner |-> 2538, snacks |-> 2000]

(***************************************************************************)
(* Properties of the day plan and the weekly plan (Spec)                   *)
(***************************************************************************)

\* The meal type the candidates of a slot carry: for snacks, "snacks" when a
\* filtered food carries it and "snack" otherwise.
SlotTag(m) ==
    IF m # "snacks" THEN m
    ELSE IF \E i \in DOMAIN filtered : "snacks" \in filtered[i].meal_types
         THEN "snacks" ELSE "snack"

\* C2: once recommend has run, every item of every meal slot of the day plan
\* is the item of a food that filter_foods returned for
\* build_constraints(profile), that food is tagged for the slot (for snacks:
\* "snacks", or "snack" when no returned food is tagged "snacks"), and it has
\* no excluded allergen, no avoided tag, no avoided name and no disliked
\* name; every item of the weekly plan is an item of the same slot of the day.
C2_PlannedFromFiltered ==
    pc = "returned" =>
        /\ \A m \in MealNames : \A k \in DOMAIN meals[m] :
              \E i \in DOMAIN filtered :
                 /\ meals[m][k] = ToItem(filtered[i])
                 /\ SlotTag(m) \in filtered[i].meal_types
                 /\ filtered[i].allergens \cap constraints.exclude_allergens = {}
                 /\ filtered[i].tags \cap constraints.avoid_tags = {}
                 /\ \A n \in constraints.avoid_names :
                        ~IsSubstr(n, Lower(filtered[i].name))
                 /\ \A j \in DOMAIN profile.dietary.dislikes :
                        ~IsSubstr(Lower(profile.dietary.dislikes[j]), Lower(filtered[i].name))
        /\ \A d \in DOMAIN weekly : \A m \in MealNames :
              \A k \in DOMAIN weekly[d].meals[m] :
                 \E j \in DOMAIN meals[m] : weekly[d].meals[m][k] = meals[m][j]

\* C2 witness: a finished run in which every slot holds an item, the week is
\* built, an allergen is excluded and the catalog holds a food that carries it.
C2_Witness ==
    /\ pc = "returned"
    /\ \A m \in MealNames : meals[m] # <<>>
    /\ Len(weekly) = 7
    /\ \E i \in DOMAIN catalog :
          catalog[i].allergens \cap constraints.exclude_allergens # {}
    /\ \E i \in DOMAIN catalog : \A j \in DOMAIN filtered : filtered[j] # catalog[i]

(***************************************************************************)
(* Properties of from_dict (SpecLoad)                                      *)
(***************************************************************************)

\* The bmi of the input dict from_dict was given.
SuppliedBmi == hist[1].personal.bmi

\* round(weight_kg / (height_cm / 100) ** 2, 2) of the loaded profile, in
\* hundredths; the height is not 0.
BmiFormula ==
    RoundHalfEven(profile.personal.weight_kg * 100 * 100 * 100,
                  profile.personal.height_cm * profile.personal.height_cm)

\* C11: from_dict sets personal.bmi to round(weight_kg / (height_cm/100)^2, 2)
\* exactly when the input carries no bmi and keeps a supplied bmi unchanged;
\* for 170 cm and 70 kg with no bmi the result is 24.22.
C11_BmiFormula ==
    pc = "loaded" =>
        /\ (IsNone(SuppliedBmi) /\ profile.personal.height_cm # 0)
              => profile.personal.bmi = BmiFormula
        /\ ~IsNone(SuppliedBmi) => profile.personal.bmi = TheVal(SuppliedBmi)
        /\ (IsNone(SuppliedBmi) /\ profile.personal.height_cm = 170
                                /\ profile.personal.weight_kg = 70)
              => profile.personal.bmi = 2422

\* C11 amended: when the input carries no bmi, from_dict sets personal.bmi to
\* round(weight_kg / (height_cm/100)^2, 2) if height_cm is positive and to
\* 0.0 if it is not; a supplied bmi is kept unchanged; for 170 cm and 70 kg
\* with no bmi the result is 24.22.
C11_BmiFormulaPositiveHeight ==
    pc = "loaded" =>
        /\ (IsNone(SuppliedBmi) /\ profile.personal.height_cm > 0)
              => profile.personal.bmi = BmiFormula
        /\ (IsNone(SuppliedBmi) /\ profile.personal.height_cm <= 0)
              => profile.personal.bmi = 0
        /\ ~IsNone(SuppliedBmi) => profile.personal.bmi = TheVal(SuppliedBmi)
        /\ (IsNone(SuppliedBmi) /\ profile.personal.height_cm = 170
                                /\ profile.personal.weight_kg = 70)
              => profile.personal.bmi = 2422

\* C11 witness: an input of 170 cm and 70 kg without a bmi has been loaded.
C11_Witness ==
    /\ pc = "loaded"
    /\ IsNone(SuppliedBmi)
    /\ hist[1].personal.height_cm = Some(170)
    /\ profile.personal.height_cm = 170
    /\ profile.personal.weight_kg = 70
    /\ profile.personal.bmi = 2422

(***************************************************************************)
(* Properties of the planner notes (Spec)                                  *)
(***************************************************************************)

Planned == pc \in {"planned", "weekly", "returned", "done"}

\* The note assemble_day_plan writes for a slot.
NoteFor(m) ==
    IF m = "snacks" THEN "No snack candidates available under current constraints."
    ELSE NoCandidatesNote(m)

HasNote(m) == \E i \in DOMAIN planner_notes : planner_notes[i] = NoteFor(m)

\* C12: after assemble_day_plan, each of the four slots that ends with no
\* picked item has a planner note naming it, and a slot with a picked item
\* has none; a slot that had candidates but none within its sodium budget
\* is included.
C12_NotePerEmptySlot ==
    Planned => \A m \in MealNames : (meals[m] = <<>>) <=> HasNote(m)

\* Sum of sodium_mg over the items of slot m of the day plan.
SlotSodium(m) == SumOver(meals[m], "sodium_mg", 1)

\* int(sodium_limit * split[m]), the product cut towards zero.
SlotBudget(m) ==
    IF sodium_limit * split[m] >= 0 THEN (sodium_limit * split[m]) \div (100 * 100)
    ELSE -((-(sodium_limit * split[m])) \div (100 * 100))

\* The day plan keeps every slot within its sodium budget, and its sodium
\* total is the sum over all picked items and within sodium_limit.
WithinSodiumLimit ==
    /\ \A m \in MealNames : SlotSodium(m) <= SlotBudget(m)
    /\ totals.sodium_mg = SlotSodium("breakfast") + SlotSodium("lunch")
                            + SlotSodium("dinner") + SlotSodium("snacks")
    /\ totals.sodium_mg <= sodium_limit

WeekBuilt == pc \in {"weekly", "returned", "done"}

\* C28: generate_weekly_plan returns exactly the seven days Mon..Sun; for
\* day index d (0..6) and every slot, the weekly slot is empty when the
\* day-plan slot is empty and otherwise holds exactly the one item
\* items[d mod len(items)], so a slot with one item repeats it on all seven
\* days and a slot with two items alternates starting with the first; the
\* day plan itself is left unchanged.
C28_WeeklyRotation ==
    /\ [](WeekBuilt =>
            /\ Len(weekly) = 7
            /\ [d \in 1..7 |-> weekly[d].day]
                  = <<"Mon", "Tue", "Wed", "Thu", "Fri", "Sat", "Sun">>
            /\ \A d \in 0..6 : \A m \in MealNames :
                  /\ DOMAIN weekly[d + 1].meals = MealNames
                  /\ meals[m] = <<>> => weekly[d + 1].meals[m] = <<>>
                  /\ meals[m] # <<>> =>
                        weekly[d + 1].meals[m] = <<meals[m][(d % Len(meals[m])) + 1]>>
                  /\ Len(meals[m]) = 1 => weekly[d + 1].meals[m] = meals[m]
                  /\ Len(meals[m]) = 2 =>
                        weekly[d + 1].meals[m]
                          = IF d \in {0, 2, 4, 6} THEN <<meals[m][1]>> ELSE <<meals[m][2]>>)
    /\ [][pc' = "weekly" => meals' = meals /\ totals' = totals /\ split' = split]_vars

\* C28 witness: a week built from a day plan with an empty slot, a slot of
\* one item and a slot of two different items.
C28_Witness ==
    /\ pc = "weekly"
    /\ \E a, b, c \in MealNames :
          /\ meals[a] = <<>>
          /\ Len(meals[b]) = 1
          /\ Len(meals[c]) = 2
          /\ weekly[2].meals[c] # weekly[1].meals[c]
          /\ weekly[7].meals[c] = weekly[1].meals[c]

(***************************************************************************)
(* Properties of the response of recommend (Spec)                          *)
(***************************************************************************)

\* The sections the specification names.
NamedSections ==
    {"personalized_meal_plan", "snacks_recommendation", "foods_to_include",
     "foods_to_avoid", "calorie_breakdown", "weekly_diet_plan",
     "hydration_and_lifestyle_tips", "preparation_tips", "nutrition_targets",
     "explanations"}

\* The response is complete: every named section is there, and a slot with
\* no candidate among the filtered foods has an empty item list.
CompleteResult ==
    pc = "done" =>
        /\ NamedSections \subseteq DOMAIN result
        /\ \A m \in {"breakfast", "lunch", "dinner"} :
              Candidates(filtered, m) = <<>> => result.personalized_meal_plan[m] = <<>>
        /\ SnackCands(filtered) = <<>> => result.snacks_recommendation = <<>>
        /\ filtered = <<>> => result.foods_to_include = <<>>

\* The call recommend makes next yields a value of the shape the code after
\* it reads: integer targets, a day plan with the four slots, seven days.
NextCallReturns ==
    /\ pc = "start" =>
          /\ estimate_daily_calories(profile) \in Int
          /\ SodiumMgLimit(profile) \in Int
    /\ pc = "constraints" =>
          DOMAIN assemble_day_plan(profile, calories, sodium_limit, catalog).meals
             = {"breakfast", "lunch", "dinner", "snacks"}
    /\ pc = "planned" => Len(generate_weekly_plan(meals)) = Len(WeekDays)

\* C13: for every profile, one for which filter_foods returns no food
\* included, recommend returns without raising (each call it makes yields
\* its value) and its result contains every named top-level section, with
\* empty item lists for the slots that have no candidate.
C13_AlwaysCompleteResult ==
    /\ CompleteResult
    /\ NextCallReturns

\* C13 witness: recommend has returned for a profile for which filter_foods
\* returned no food; all four item lists are empty and the sections are there.
C13_Witness ==
    /\ pc = "done"
    /\ filtered = <<>>
    /\ catalog # <<>>
    /\ result.personalized_meal_plan =
          [breakfast |-> <<>>, lunch |-> <<>>, dinner |-> <<>>]
    /\ result.snacks_recommendation = <<>>
    /\ Len(result.explanations) >= 4
    /\ DOMAIN result = Sections

\* C14: a profile with a non-positive height_cm gets no recommendation:
\* recommend signals InvalidProfile and never reaches its return statement.
C14_ImpossibleHeightRejected ==
    profile.personal.height_cm <= 0 => pc # "done"

\* C29: in the result of recommend, whenever constraints_summary.max_sodium_mg
\* is set, the total sodium of the day plan (calorie_breakdown.totals.sodium_mg)
\* does not exceed it, including for a hypertension or low_sodium profile
\* that supplies its own nutrition.salt_limit_g.
C29_PlanWithinMaxSodium ==
    pc = "done" =>
        (~IsNone(result.constraints_summary.max_sodium_mg) =>
            result.calorie_breakdown.totals.sodium_mg
                <= TheVal(result.constraints_summary.max_sodium_mg))

====
